---- MODULE Spec2Model ----
(***************************************************************************)
(* Configuration resolution and live-update reconciliation of             *)
(* bootstrap/config/config.go (go-mod-bootstrap).                          *)
(*                                                                         *)
(* Strings are sequences of atoms; an atom stands for a run of characters  *)
(* ("Interval"), "/" is the path separator used by utils.BuildBaseKey.     *)
(* The atoms are chosen so that one string is a substring of another       *)
(* exactly when its atom sequence is a contiguous part of the other's.     *)
(* A key path is a sequence of segments (strings); a flat map is a         *)
(* function from leaf paths to values; a tree is the nested                *)
(* map[string]any the code walks.                                          *)
(***************************************************************************)
EXTENDS Integers, Sequences, FiniteSets, TLC

\* ------------------------------------------------------------------ bounds
MaxCommonChanges == 1   \* provider-side changes of the common sections in one run
MaxPrivateChanges == 1  \* provider-side changes under the service's own key
MaxErrors == 1          \* provider failures (transport, key query, filter) in one run
MaxCloses == 1          \* update streams the provider client closes in one run

\* --------------------------------------------------------------- constants
writableKey == <<"Writable">>
allServicesKey == <<"all-services">>
appServicesKey == <<"app-services">>
Slash == <<"/">>

\* the Writable leaves of the service's typed configuration
KLogLevel == << <<"LogLevel">> >>
KInterval == << <<"Telemetry">>, <<"Interval">> >>
KIntervalUnits == << <<"Telemetry">>, <<"Interval", "Units">> >>
KSecret == << <<"InsecureSecrets">>, <<"DB">>, <<"SecretData">>, <<"password">> >>
WKeys == {KLogLevel, KInterval, KIntervalUnits, KSecret}

\* zero value of a field the provider does not hold ("" / nil)
Zero == ""
Vals(k) ==
  IF k = KLogLevel THEN {"INFO", "DEBUG"}
  ELSE IF k = KInterval THEN {"30s", "10s", "0s", "bad"}
  ELSE IF k = KIntervalUnits THEN {"ms", "s"}
  ELSE {"pw1", "pw2"}

AllVals == UNION {Vals(k) : k \in WKeys} \cup {"c1", "c2"}

EmptyMap == [k \in {} |-> Zero]

\* utils.BuildBaseKey: strings.Join(keys, "/")
RECURSIVE BuildBaseKey(_)
BuildBaseKey(segs) ==
  IF segs = <<>> THEN <<>>
  ELSE IF Len(segs) = 1 THEN Head(segs)
  ELSE Head(segs) \o Slash \o BuildBaseKey(Tail(segs))

buildNewKey(previousKey, currentKey) ==
  IF previousKey # <<>> THEN BuildBaseKey(<<previousKey, currentKey>>)
  ELSE currentKey

\* strings.Contains(s, sub)
Contains(s, sub) ==
  \E i \in 0..(Len(s) - Len(sub)) : SubSeq(s, i + 1, i + Len(sub)) = sub

\* ---------------------------------------------------------------- trees
Scalar(v) == [kind |-> "scalar", val |-> v]
Sequence(q) == [kind |-> "seq", val |-> q]
Mapping(m) == [kind |-> "map", val |-> m]

\* utils.ConvertToMap of a flat set of leaves: the nested map[string]any
RECURSIVE ToTree(_)
ToTree(flat) ==
  LET heads == {Head(p) : p \in DOMAIN flat}
  IN [s \in heads |->
        IF <<s>> \in DOMAIN flat THEN Scalar(flat[<<s>>])
        ELSE LET sub == {p \in DOMAIN flat : Head(p) = s}
             IN Mapping(ToTree([q \in {Tail(p) : p \in sub} |-> flat[<<s>> \o q]]))]

\* ------------------------------------------------- Structural Diff Engine
NoKey == <<>>                 \* the empty changed key ""
Panic == <<"!panic">>         \* run-time panic: comparing uncomparable type
Continue == <<"!continue">>   \* the loop body went on to the next key

\* walkMapForChange: Go ranges over a map in an unspecified order, so the
\* result is the set of values some iteration order returns.
RECURSIVE walkMapForChange(_, _, _)
walkMapForChange(previousMap, updatedMap, changedKey) ==
  LET outcome(k) ==
        IF k \notin DOMAIN previousMap THEN {buildNewKey(changedKey, k)}
        ELSE LET u == updatedMap[k]
                 p == previousMap[k]
             IN IF u.kind # "map"
                THEN IF u.kind = "seq" /\ p.kind = "seq" THEN {Panic}
                     ELSE IF u.kind # p.kind THEN {buildNewKey(changedKey, k)}
                     ELSE IF u.val # p.val THEN {buildNewKey(changedKey, k)}
                     ELSE {Continue}
                ELSE IF p.kind # "map"
                THEN IF DOMAIN u.val = {} THEN {NoKey}
                     ELSE {buildNewKey(buildNewKey(changedKey, k), kk) : kk \in DOMAIN u.val}
                ELSE {IF x = NoKey THEN Continue ELSE x :
                        x \in walkMapForChange(p.val, u.val, buildNewKey(changedKey, k))}
      all == UNION {outcome(k) : k \in DOMAIN updatedMap}
  IN (all \ {Continue}) \cup
     (IF \A k \in DOMAIN updatedMap : Continue \in outcome(k) THEN {NoKey} ELSE {})

\* isPrivateOverride, lines 815-823: the walk, then the swapped walk
changedKeys(previousMap, updatedMap) ==
  LET fwd == walkMapForChange(previousMap, updatedMap, NoKey)
  IN (fwd \ {NoKey}) \cup
     (IF NoKey \in fwd THEN walkMapForChange(updatedMap, previousMap, NoKey) ELSE {})

\* variant: the comparison never matches
isKeyInPrivate_noMatch(keys, err, changedKey) == err

\* variant: a failed query of the private keys counts as "not private"
isKeyInPrivate_errNotPrivate(keys, err, changedKey) ==
  ~err /\ \E key \in keys : Contains(key, writableKey \o Slash \o changedKey)

\* isKeyInPrivate: keys is the live GetConfigurationKeys(writableKey) answer
isKeyInPrivate(keys, err, changedKey) ==
  IF err THEN TRUE
  ELSE \E key \in keys : Contains(key, writableKey \o Slash \o changedKey)

\* isPrivateOverride from the changed key on, lines 816-829
isPrivateOverride(changedKey, keys, err) ==
  IF changedKey = NoKey THEN TRUE
  ELSE isKeyInPrivate(keys, err, changedKey)

\* ------------------------------------------- utils (filter and merge)
\* utils.ConvertToMap, as flat leaves: a typed Writable whose InsecureSecrets
\* map is nil marshals to the leaf "InsecureSecrets": null
KSecretsNil == << <<"InsecureSecrets">> >>
ConvertToMap(x) ==
  IF KSecret \in DOMAIN x /\ x[KSecret] = Zero
  THEN [p \in (DOMAIN x \ {KSecret}) \cup {KSecretsNil} |->
          IF p = KSecretsNil THEN Zero ELSE x[p]]
  ELSE x

\* variant: the base key is not part of the comparison
RemoveUnusedSettings_anyBase(raw, baseKey, usedKeys) ==
  LET m == ConvertToMap(raw)
      kept == {p \in DOMAIN m :
                 \E u \in usedKeys :
                   /\ Len(u) >= Len(BuildBaseKey(p))
                   /\ SubSeq(u, Len(u) - Len(BuildBaseKey(p)) + 1, Len(u)) = BuildBaseKey(p)}
  IN [p \in kept |-> m[p]]

\* utils.RemoveUnusedSettings: convert, then keep the leaves whose full key
\* (baseKey + relative path) is known
RemoveUnusedSettings(raw, baseKey, usedKeys) ==
  LET m == ConvertToMap(raw)
      kept == {p \in DOMAIN m : baseKey \o Slash \o BuildBaseKey(p) \in usedKeys}
  IN [p \in kept |-> m[p]]

\* utils.MergeValues: overlay leaves win, other leaves are untouched
MergeValues(target, overlay) ==
  [k \in DOMAIN target |-> IF k \in DOMAIN overlay THEN overlay[k] ELSE target[k]]

\* --------------------------------------------------- typed configuration
\* interfaces.Configuration getters over the Writable leaves
GetLogLevel(cfg) == cfg[KLogLevel]
GetTelemetryInterval(cfg) == cfg[KInterval]
NilSecrets == [n \in {} |-> Zero]
GetInsecureSecrets(cfg) ==
  IF cfg[KSecret] = Zero THEN NilSecrets
  ELSE [n \in {"DB"} |-> [SecretName |-> "redisdb", SecretData |-> cfg[KSecret]]]

\* config.InsecureSecretsInfo: a nil SecretData, and the zero value a Go map
\* yields for a key it does not hold
NilData == Zero
ZeroSecret == [SecretName |-> Zero, SecretData |-> NilData]
SecretAt(m, k) == IF k \in DOMAIN m THEN m[k] ELSE ZeroSecret

\* variant: the previous name of a renamed secret is not reported
getSecretNamesChanged_noOldName(prevVals, curVals) ==
  LET names == {prevVals[k].SecretName : k \in DOMAIN prevVals} \cup
               {curVals[k].SecretName : k \in DOMAIN curVals}
      removed(n) == {k \in DOMAIN prevVals :
                       /\ SecretAt(curVals, k).SecretData = NilData
                       /\ prevVals[k].SecretName = n}
      changed(n) == {k \in DOMAIN prevVals :
                       /\ SecretAt(curVals, k).SecretData # NilData
                       /\ prevVals[k] # SecretAt(curVals, k)
                       /\ SecretAt(curVals, k).SecretName = n}
      added(n) == {k \in DOMAIN curVals :
                     /\ SecretAt(prevVals, k).SecretData = NilData
                     /\ curVals[k].SecretName = n}
      count(n) == Cardinality(removed(n)) + Cardinality(changed(n))
                  + Cardinality(added(n))
  IN [n \in {m \in names : count(m) > 0} |-> count(n)]

\* getSecretNamesChanged: how often each secret name is appended. A secret
\* of prevVals whose current SecretData is nil is removed (line 981);
\* otherwise one that is not deeply equal is changed (line 987), and renamed
\* if the names differ (line 991); a secret of curVals whose previous
\* SecretData is nil is added (line 999)
getSecretNamesChanged(prevVals, curVals) ==
  LET names == {prevVals[k].SecretName : k \in DOMAIN prevVals} \cup
               {curVals[k].SecretName : k \in DOMAIN curVals}
      removed(n) == {k \in DOMAIN prevVals :
                       /\ SecretAt(curVals, k).SecretData = NilData
                       /\ prevVals[k].SecretName = n}
      changed(n) == {k \in DOMAIN prevVals :
                       /\ SecretAt(curVals, k).SecretData # NilData
                       /\ prevVals[k] # SecretAt(curVals, k)
                       /\ SecretAt(curVals, k).SecretName = n}
      renamed(n) == {k \in DOMAIN prevVals :
                       /\ SecretAt(curVals, k).SecretData # NilData
                       /\ prevVals[k].SecretName # SecretAt(curVals, k).SecretName
                       /\ prevVals[k].SecretName = n}
      added(n) == {k \in DOMAIN curVals :
                     /\ SecretAt(prevVals, k).SecretData = NilData
                     /\ curVals[k].SecretName = n}
      count(n) == Cardinality(removed(n)) + Cardinality(changed(n))
                  + Cardinality(renamed(n)) + Cardinality(added(n))
  IN [n \in {m \in names : count(m) > 0} |-> count(n)]

\* time.ParseDuration, in units of ten seconds
DurationErr == -1
ParseDuration(str) ==
  IF str = "30s" THEN 3 ELSE IF str = "10s" THEN 1
  ELSE IF str = "0s" THEN 0 ELSE DurationErr
\* math.MaxInt64 nanoseconds in units of ten seconds
mathMaxInt64 == 922337203

\* ----------------------------------------------------------- provider
configStem == <<"edgex", "/", "v3">>
serviceKey == <<"svc">>
CoreCommonConfigServiceKey == <<"core-common-config-bootstrapper">>

KCustom == << <<"Setting">> >>
Sections == {"private", "all", "type", "custom"}
Loops == {"private", "all", "type", "custom"}
CommonLoops == {"all", "type"}
WritableLoops == {"private", "all", "type"}

KeysOf(s) == IF s = "custom" THEN {KCustom} ELSE WKeys
ValsOf(s, k) == IF s = "custom" THEN {"c1", "c2"} ELSE Vals(k)

\* base path of the provider client of a section (CreateProviderClient)
BaseKeyOf(s) ==
  IF s = "all" THEN BuildBaseKey(<<configStem, CoreCommonConfigServiceKey, allServicesKey>>)
  ELSE IF s = "type" THEN BuildBaseKey(<<configStem, CoreCommonConfigServiceKey, appServicesKey>>)
  ELSE BuildBaseKey(<<configStem, serviceKey>>)

NoMsg == [k \in {<< <<"none">> >>} |-> Zero]

VARIABLES
  config,           \* the live Writable of the service configuration
  prov,             \* provider: leaves stored under each section's Writable
  dirty,            \* the watcher has a snapshot to send on updateStream
  pc,               \* position of each watch loop
  isFirstUpdate,
  previousCommonWritable,
  raw, rawMap,      \* locals of the push being handled
  prevVals,         \* applyWritableUpdates: previous tracked values
  cancelled,        \* cp.ctx is done
  wg,               \* cp.wg counter
  stopCalls,        \* StopWatching calls per client
  configUpdated,    \* TRUE iff a configUpdated stream was supplied
  loggerLevel,      \* threshold of the logging client
  metricsInterval,  \* reporting interval of the metrics manager
  secretCallbacks,  \* SecretUpdatedAtSecretName calls of the last update
  fired,            \* side effects of the most recent dispatch
  callbackArg,      \* last argument of the custom changedCallback
  changes, errors,  \* history counters bounding the run
  errorsLogged,     \* transport errors each loop has logged
  flags,            \* Process: command-line flags and what the service is
  sources,          \* Process: provider sections, files, environment
  serviceConfig,    \* Process: the configuration being resolved, full paths
  providerHasConfig,  \* cp.providerHasConfig
  step,             \* position within Process, or within isPrivateOverride
  calls,            \* Process: provider calls, file reads and loops started, in order
  previousMap, updatedMap,  \* isPrivateOverride: the two converted maps
  changedKey,       \* isPrivateOverride: the key the walk returned
  previousInsecureSecrets, currentInsecureSecrets,  \* the dispatcher, alone:
  previousLogLevel, currentLogLevel,                \* values it compares
  waitPc,           \* waitForCommonConfig: the loop it is in, or returned
  isAlive, isConfigReady,  \* waitForCommonConfig: locals
  commonConfigReady,       \* waitForCommonConfig: the marker last read
  elapsed, deadline,       \* cp.startupTimer, in sleep intervals
  waitErr,          \* waitForCommonConfig: the error returned, or nil
  candidate,        \* RemoveUnusedSettings: the configuration, as leaves
  basePath,         \* RemoveUnusedSettings: the base key
  knownKeys,        \* RemoveUnusedSettings: the keys the provider holds
  filtered,         \* RemoveUnusedSettings: the map returned
  authHeader,       \* the request's Authorization header
  jwtChecked,       \* the tokens passed to IsJWTValid, in order
  jwtAnswer,        \* what IsJWTValid returned, or "none"
  httpStatus,       \* the status the wrapper wrote, or 0
  innerCalls,       \* how often the wrapped handler was invoked
  configCopy,       \* the copy a provider section is loaded into
  overlayMap,       \* the overlay handed to utils.MergeValues
  updatableConfig,  \* LoadCustomConfigSection: the custom configuration
  securityEnabled,  \* NewSecretProvider: IsSecurityEnabled()
  provider,         \* NewSecretProvider: provider, then the provider returned
  secretErr,        \* NewSecretProvider: err, then the error returned
  dicSecretProvider \* what the DI container holds as the secret provider

\* state of the start-up sequence, and of one run of the diff
startupVars == <<flags, sources, serviceConfig, providerHasConfig, step, calls>>
diffVars == <<previousMap, updatedMap, changedKey>>
secretVars == <<previousInsecureSecrets, currentInsecureSecrets,
                previousLogLevel, currentLogLevel>>
\* state of the specifications that follow one function alone
waitVars == <<waitPc, isAlive, isConfigReady, commonConfigReady, elapsed,
              deadline, waitErr>>
filterVars == <<candidate, basePath, knownKeys, filtered>>
authVars == <<authHeader, jwtChecked, jwtAnswer, httpStatus, innerCalls>>
loadVars == <<configCopy, overlayMap, updatableConfig>>
providerVars == <<securityEnabled, provider, secretErr, dicSecretProvider>>
pureVars == <<secretVars, waitVars, filterVars, authVars, loadVars, providerVars>>
watchVars == <<config, prov, dirty, pc, isFirstUpdate,
               previousCommonWritable, raw, rawMap, prevVals, cancelled, wg,
               stopCalls, configUpdated, loggerLevel, metricsInterval,
               secretCallbacks, fired, callbackArg, changes, errors,
               errorsLogged>>

vars == <<config, prov, dirty, pc, isFirstUpdate,
          previousCommonWritable, raw, rawMap, prevVals, cancelled, wg,
          stopCalls, configUpdated, loggerLevel, metricsInterval,
          secretCallbacks, fired, callbackArg, changes, errors,
          startupVars, diffVars, pureVars, errorsLogged>>

\* GetConfigurationKeys(writableKey) of a section's client
GetConfigurationKeys(s) ==
  {BuildBaseKey(<<BaseKeyOf(s), writableKey, BuildBaseKey(p)>>) : p \in DOMAIN prov[s]}

\* the typed Writable the watcher decodes: absent leaves keep the zero value
Snapshot(s) == [k \in KeysOf(s) |-> IF k \in DOMAIN prov[s] THEN prov[s][k] ELSE Zero]

NoVals == [logLevel |-> Zero, interval |-> Zero, secrets |-> NilSecrets]
Tracked(cfg) == [logLevel |-> GetLogLevel(cfg),
                 interval |-> GetTelemetryInterval(cfg),
                 secrets |-> GetInsecureSecrets(cfg)]

\* ------------------------------------------------------------- Init
ZeroConfig == [k \in WKeys |-> Zero]
InitAllServices == [k \in WKeys |->
  IF k = KLogLevel THEN "INFO" ELSE IF k = KInterval THEN "30s"
  ELSE IF k = KIntervalUnits THEN "s" ELSE "pw1"]
InitServiceType == [k \in {KInterval} |-> "30s"]
InitPrivate == [k \in {KLogLevel, KIntervalUnits} |->
  IF k = KLogLevel THEN "DEBUG" ELSE "ms"]

\* the leaves of the full service configuration followed through Process
PLogLevel == <<writableKey>> \o KLogLevel
PHost == << <<"Service">>, <<"Host">> >>
PKeys == {PLogLevel, PHost}

\* no source holds anything
NoSources == [all |-> EmptyMap, type |-> EmptyMap, private |-> EmptyMap,
              file |-> EmptyMap, env |-> EmptyMap, commonFile |-> {},
              custom |-> EmptyMap]

\* what Process called for a core service whose private configuration is at
\* the provider
ReturnedCalls ==
  <<"createProvider/all", "waitForCommonConfig", "GetConfiguration/all",
    "createProvider/private", "HasConfiguration", "GetConfiguration/private",
    "GetConfigurationKeys/private", "listen/private", "listen/all", "SetLogLevel">>

\* Process has returned for a core service that uses the provider
ProcessReturned ==
  /\ step = "done"
  /\ flags = [useProvider |-> TRUE, overwriteConfig |-> FALSE, devMode |-> FALSE,
              commonConfig |-> FALSE, serviceType |-> "core", hasServiceInfo |-> TRUE]
  /\ sources = NoSources
  /\ serviceConfig = [k \in PKeys |-> Zero]
  /\ providerHasConfig = TRUE
  /\ calls = ReturnedCalls

\* no diff is being computed
NoDiff ==
  /\ previousMap = EmptyMap
  /\ updatedMap = EmptyMap
  /\ changedKey = <<>>

\* no run of a function that is followed alone
NoSecretsDiff ==
  /\ previousInsecureSecrets = NilSecrets
  /\ currentInsecureSecrets = NilSecrets
  /\ previousLogLevel = Zero
  /\ currentLogLevel = Zero
NoWait ==
  /\ waitPc = "none"
  /\ isAlive = FALSE
  /\ isConfigReady = FALSE
  /\ commonConfigReady = Zero
  /\ elapsed = 0
  /\ deadline = 0
  /\ waitErr = Zero
NoFilter ==
  /\ candidate = EmptyMap
  /\ basePath = <<>>
  /\ knownKeys = {}
  /\ filtered = EmptyMap
NoAuth ==
  /\ authHeader = <<>>
  /\ jwtChecked = <<>>
  /\ jwtAnswer = "none"
  /\ httpStatus = 0
  /\ innerCalls = 0
NoLoad ==
  /\ configCopy = EmptyMap
  /\ overlayMap = EmptyMap
  /\ updatableConfig = EmptyMap
NoProvider ==
  /\ securityEnabled = FALSE
  /\ provider = "nil"
  /\ secretErr = Zero
  /\ dicSecretProvider = "none"
NoPure == NoSecretsDiff /\ NoWait /\ NoFilter /\ NoAuth /\ NoLoad /\ NoProvider

\* the watch loops of a run: private and all-services always (lines 239-241),
\* the service-type loop for app and device services (lines 243-250), the
\* custom loop when the service asks for it
Scenarios == {{"private", "all"}, {"private", "all", "custom"}}

\* the watch loops have just been started by Process (lines 238-251) on the
\* configuration resolved as common, then service type, then private
InitLoops(running) ==
  /\ prov = [s \in Sections |->
               IF s = "all" THEN InitAllServices
               ELSE IF s = "type" THEN InitServiceType
               ELSE IF s = "private" THEN InitPrivate
               ELSE [k \in {KCustom} |-> "c1"]]
  /\ config = MergeValues(MergeValues(MergeValues(ZeroConfig, InitAllServices),
                            IF "type" \in running THEN InitServiceType ELSE EmptyMap),
                          InitPrivate)
  /\ loggerLevel = InitPrivate[KLogLevel]
  /\ dirty = [l \in Loops |-> l \in running]
  /\ pc = [l \in Loops |-> IF l \in running THEN "select" ELSE "none"]
  /\ isFirstUpdate = [l \in Loops |-> TRUE]
  /\ previousCommonWritable = [l \in Loops |-> NoMsg]
  /\ raw = [l \in Loops |-> NoMsg]
  /\ rawMap = [l \in Loops |-> NoMsg]
  /\ prevVals = [l \in Loops |-> NoVals]
  /\ cancelled = FALSE
  /\ wg = Cardinality(running)
  /\ stopCalls = [l \in Loops |-> 0]
  /\ metricsInterval = ParseDuration("30s")
  /\ secretCallbacks = NilSecrets
  /\ fired = {}
  /\ callbackArg = NoMsg
  /\ errorsLogged = [l \in Loops |-> 0]

\* a service with or without a configUpdated stream (NewProcessorForService,
\* lines 82-97); no provider write and no failure has happened yet
InitWatch(running) ==
  /\ InitLoops(running)
  /\ ProcessReturned
  /\ NoDiff /\ NoPure
  /\ configUpdated \in BOOLEAN
  /\ changes = [c \in {"common", "private"} |-> 0]
  /\ errors = 0

Init == \E running \in Scenarios : InitWatch(running)

\* ------------------------------------------------ provider (environment)
ClassOf(s) == IF s \in CommonLoops THEN "common" ELSE "private"
\* the sections that are written during a run: those of the running loops,
\* and the custom section alone in a run with a custom loop; no writes are
\* followed once the context is cancelled
Changing(s) ==
  /\ pc[s] # "none"
  /\ pc["custom"] = "none" \/ s = "custom"
  /\ ~cancelled
MaxChanges(s) == IF s \in CommonLoops THEN MaxCommonChanges ELSE MaxPrivateChanges

\* a key of a watched section is written at the provider
ProviderPut(s, k, v) ==
  /\ Changing(s)
  /\ k \in KeysOf(s)
  /\ v \in ValsOf(s, k)
  /\ changes[ClassOf(s)] < MaxChanges(s)
  /\ ~(k \in DOMAIN prov[s] /\ prov[s][k] = v)
  /\ prov' = [prov EXCEPT ![s] =
                [x \in DOMAIN prov[s] \cup {k} |-> IF x = k THEN v ELSE prov[s][x]]]
  /\ dirty' = [dirty EXCEPT ![s] = TRUE]
  /\ changes' = [changes EXCEPT ![ClassOf(s)] = @ + 1]
  /\ UNCHANGED <<config, pc, isFirstUpdate,
                 previousCommonWritable, raw, rawMap, prevVals, cancelled, wg,
                 stopCalls, configUpdated, loggerLevel, metricsInterval,
                 secretCallbacks, fired, callbackArg, errors>>
  /\ UNCHANGED <<startupVars, diffVars, pureVars, errorsLogged>>

\* a key of a watched section is deleted at the provider
ProviderDelete(s, k) ==
  /\ Changing(s)
  /\ changes[ClassOf(s)] < MaxChanges(s)
  /\ k \in DOMAIN prov[s]
  /\ prov' = [prov EXCEPT ![s] = [x \in DOMAIN prov[s] \ {k} |-> prov[s][x]]]
  /\ dirty' = [dirty EXCEPT ![s] = TRUE]
  /\ changes' = [changes EXCEPT ![ClassOf(s)] = @ + 1]
  /\ UNCHANGED <<config, pc, isFirstUpdate,
                 previousCommonWritable, raw, rawMap, prevVals, cancelled, wg,
                 stopCalls, configUpdated, loggerLevel, metricsInterval,
                 secretCallbacks, fired, callbackArg, errors>>
  /\ UNCHANGED <<startupVars, diffVars, pureVars, errorsLogged>>

\* the process-wide context is cancelled
Cancel ==
  /\ ~cancelled
  /\ cancelled' = TRUE
  /\ UNCHANGED <<config, prov, dirty, pc, isFirstUpdate,
                 previousCommonWritable, raw, rawMap, prevVals, wg,
                 stopCalls, configUpdated, loggerLevel, metricsInterval,
                 secretCallbacks, fired, callbackArg, changes, errors>>
  /\ UNCHANGED <<startupVars, diffVars, pureVars, errorsLogged>>

\* ------------------------------------------------------- watch loops
ClientOf(l) == IF l = "custom" THEN "private" ELSE l

\* lines 699-707 / 761-771: live keys of the watched section, then the filter;
\* a failed key query leaves usedKeys nil, a failed filter leaves rawMap nil
filteredUpdate(l, keysErr, filterErr) ==
  LET usedKeys == IF keysErr THEN {} ELSE GetConfigurationKeys(l)
  IN IF filterErr THEN EmptyMap
     ELSE RemoveUnusedSettings(Snapshot(l),
                               BuildBaseKey(<<BaseKeyOf(l), writableKey>>), usedKeys)

\* number of failed provider calls among the given ones
failures(errs) == Cardinality({i \in DOMAIN errs : errs[i]})

\* select case <-cp.ctx.Done(): StopWatching, return, deferred wg.Done
ctxDone(l) ==
  /\ pc[l] = "select"
  /\ cancelled
  /\ stopCalls' = [stopCalls EXCEPT ![l] = @ + 1]
  /\ pc' = [pc EXCEPT ![l] = "stopped"]
  /\ wg' = wg - 1
  /\ UNCHANGED <<config, prov, dirty, isFirstUpdate,
                 previousCommonWritable, raw, rawMap, prevVals, cancelled,
                 configUpdated, loggerLevel, metricsInterval,
                 secretCallbacks, fired, callbackArg, changes, errors>>
  /\ UNCHANGED <<startupVars, diffVars, pureVars, errorsLogged>>

\* the loop returned without unsubscribing
Closed(l) == pc[l] = "stopped" /\ stopCalls[l] = 0

\* variant: the closed stream is taken for cancellation
updateStreamClosed_stops(l) ==
  /\ l \in WritableLoops
  /\ pc[l] = "select"
  /\ Cardinality({m \in Loops : Closed(m)}) < MaxCloses
  /\ stopCalls' = [stopCalls EXCEPT ![l] = @ + 1]
  /\ pc' = [pc EXCEPT ![l] = "stopped"]
  /\ wg' = wg - 1
  /\ UNCHANGED <<config, prov, dirty, isFirstUpdate,
                 previousCommonWritable, raw, rawMap, prevVals, cancelled,
                 configUpdated, loggerLevel, metricsInterval,
                 secretCallbacks, fired, callbackArg, changes, errors>>
  /\ UNCHANGED <<startupVars, diffVars, pureVars, errorsLogged>>

\* select case raw, ok := <-updateStream with ok false (lines 694-697,
\* 756-759): the provider client closed the stream; return, deferred wg.Done
updateStreamClosed(l) ==
  /\ l \in WritableLoops
  /\ pc[l] = "select"
  /\ Cardinality({m \in Loops : Closed(m)}) < MaxCloses
  /\ pc' = [pc EXCEPT ![l] = "stopped"]
  /\ wg' = wg - 1
  /\ UNCHANGED <<config, prov, dirty, isFirstUpdate,
                 previousCommonWritable, raw, rawMap, prevVals, cancelled,
                 stopCalls, configUpdated, loggerLevel, metricsInterval,
                 secretCallbacks, fired, callbackArg, changes, errors>>
  /\ UNCHANGED <<startupVars, diffVars, pureVars, errorsLogged>>

\* the client of a loop has a snapshot for it: the one the provider sends
\* upon subscription, or one after a change; the unbuffered updateStream
\* hands it over when the loop is at its select
updateReady(l) ==
  /\ dirty[l]
  /\ \A m \in Loops : ClientOf(m) = ClientOf(l) => stopCalls[m] = 0

\* variant: the loop returns on a transport error
errorStreamCase_returns(l) ==
  /\ pc[l] = "select"
  /\ errors < MaxErrors
  /\ errors' = errors + 1
  /\ errorsLogged' = [errorsLogged EXCEPT ![l] = @ + 1]
  /\ pc' = [pc EXCEPT ![l] = "stopped"]
  /\ wg' = wg - 1
  /\ UNCHANGED <<config, prov, dirty, isFirstUpdate,
                 previousCommonWritable, raw, rawMap, prevVals, cancelled,
                 stopCalls, configUpdated, loggerLevel, metricsInterval,
                 secretCallbacks, fired, callbackArg, changes>>
  /\ UNCHANGED <<startupVars, diffVars, pureVars>>

\* select case ex := <-errorStream: a transport error is handed over on the
\* unbuffered errorStream and logged
errorStreamCase(l) ==
  /\ pc[l] = "select"
  /\ errors < MaxErrors
  /\ errors' = errors + 1
  /\ errorsLogged' = [errorsLogged EXCEPT ![l] = @ + 1]
  /\ UNCHANGED <<config, prov, dirty, pc, isFirstUpdate,
                 previousCommonWritable, raw, rawMap, prevVals, cancelled, wg,
                 stopCalls, configUpdated, loggerLevel, metricsInterval,
                 secretCallbacks, fired, callbackArg, changes>>
  /\ UNCHANGED <<startupVars, diffVars, pureVars>>

\* variant: a failed query of the keys or a failed filter skips the push
listenForPrivateChanges_continueOnError ==
  LET l == "private" IN
  /\ pc[l] = "select"
  /\ updateReady(l)
  /\ \E keysErr \in BOOLEAN, filterErr \in BOOLEAN :
       LET m == filteredUpdate(l, keysErr, filterErr) IN
       /\ errors + failures(<<keysErr, filterErr>>) <= MaxErrors
       /\ errors' = errors + failures(<<keysErr, filterErr>>)
       /\ IF isFirstUpdate[l]
          THEN /\ isFirstUpdate' = [isFirstUpdate EXCEPT ![l] = FALSE]
               /\ UNCHANGED <<pc, rawMap, prevVals>>
          ELSE IF keysErr \/ filterErr
          THEN UNCHANGED <<pc, rawMap, prevVals, isFirstUpdate>>
          ELSE /\ rawMap' = [rawMap EXCEPT ![l] = m]
               /\ prevVals' = [prevVals EXCEPT ![l] = Tracked(config)]
               /\ pc' = [pc EXCEPT ![l] = "merge"]
               /\ UNCHANGED isFirstUpdate
  /\ dirty' = [dirty EXCEPT ![l] = FALSE]
  /\ UNCHANGED <<config, prov, previousCommonWritable, raw,
                 cancelled, wg, stopCalls, configUpdated, loggerLevel,
                 metricsInterval, secretCallbacks, fired, callbackArg,
                 changes>>
  /\ UNCHANGED <<startupVars, diffVars, pureVars, errorsLogged>>

\* listenForPrivateChanges, case raw := <-updateStream, up to the reads of
\* the previous values in applyWritableUpdates (lines 694-716, 834-836)
listenForPrivateChanges ==
  LET l == "private" IN
  /\ pc[l] = "select"
  /\ updateReady(l)
  /\ \E keysErr \in BOOLEAN, filterErr \in BOOLEAN :
       LET m == filteredUpdate(l, keysErr, filterErr) IN
       /\ errors + failures(<<keysErr, filterErr>>) <= MaxErrors
       /\ errors' = errors + failures(<<keysErr, filterErr>>)
       /\ IF isFirstUpdate[l]
          THEN /\ isFirstUpdate' = [isFirstUpdate EXCEPT ![l] = FALSE]
               /\ UNCHANGED <<pc, rawMap, prevVals>>
          ELSE /\ rawMap' = [rawMap EXCEPT ![l] = m]
               /\ prevVals' = [prevVals EXCEPT ![l] = Tracked(config)]
               /\ pc' = [pc EXCEPT ![l] = "merge"]
               /\ UNCHANGED isFirstUpdate
  /\ dirty' = [dirty EXCEPT ![l] = FALSE]
  /\ UNCHANGED <<config, prov, previousCommonWritable, raw,
                 cancelled, wg, stopCalls, configUpdated, loggerLevel,
                 metricsInterval, secretCallbacks, fired, callbackArg,
                 changes>>
  /\ UNCHANGED <<startupVars, diffVars, pureVars, errorsLogged>>

\* listenForCommonChanges, case raw := <-updateStream, up to the call of
\* processCommonConfigChange (lines 756-781)
listenForCommonChanges(l) ==
  /\ l \in CommonLoops
  /\ pc[l] = "select"
  /\ updateReady(l)
  /\ \E keysErr \in BOOLEAN, filterErr \in BOOLEAN :
       LET m == filteredUpdate(l, keysErr, filterErr) IN
       /\ errors + failures(<<keysErr, filterErr>>) <= MaxErrors
       /\ errors' = errors + failures(<<keysErr, filterErr>>)
       /\ IF isFirstUpdate[l]
          THEN /\ isFirstUpdate' = [isFirstUpdate EXCEPT ![l] = FALSE]
               /\ previousCommonWritable' = [previousCommonWritable EXCEPT ![l] = m]
               /\ UNCHANGED <<pc, raw, rawMap>>
          ELSE /\ raw' = [raw EXCEPT ![l] = Snapshot(l)]
               /\ rawMap' = [rawMap EXCEPT ![l] = m]
               /\ pc' = [pc EXCEPT ![l] = "process"]
               /\ UNCHANGED <<isFirstUpdate, previousCommonWritable>>
  /\ dirty' = [dirty EXCEPT ![l] = FALSE]
  /\ UNCHANGED <<config, prov, prevVals,
                 cancelled, wg, stopCalls, configUpdated, loggerLevel,
                 metricsInterval, secretCallbacks, fired, callbackArg,
                 changes>>
  /\ UNCHANGED <<startupVars, diffVars, pureVars, errorsLogged>>

\* the keys the diff of the loop's two snapshots can report
commonChangedKeys(l) ==
  changedKeys(ToTree(ConvertToMap(previousCommonWritable[l])),
              ToTree(ConvertToMap(rawMap[l])))

\* processCommonConfigChange: the precedence check with a live query of the
\* private keys; a suppressed push goes straight to line 788. A snapshot
\* that utils.ConvertToMap cannot convert (lines 807-814) ends the check
\* before the walk
processCommonConfigChange(l) ==
  /\ l \in CommonLoops
  /\ pc[l] = "process"
  /\ \E key \in commonChangedKeys(l), privErr \in BOOLEAN, convErr \in BOOLEAN :
       /\ privErr => (key # NoKey /\ errors < MaxErrors /\ ~convErr)
       /\ convErr => errors < MaxErrors
       /\ errors' = errors + failures(<<privErr, convErr>>)
       /\ IF convErr \/ isPrivateOverride(key, GetConfigurationKeys("private"), privErr)
          THEN /\ previousCommonWritable' = [previousCommonWritable EXCEPT ![l] = raw[l]]
               /\ raw' = [raw EXCEPT ![l] = NoMsg]
               /\ rawMap' = [rawMap EXCEPT ![l] = NoMsg]
               /\ pc' = [pc EXCEPT ![l] = "select"]
               /\ UNCHANGED prevVals
          ELSE /\ prevVals' = [prevVals EXCEPT ![l] = Tracked(config)]
               /\ pc' = [pc EXCEPT ![l] = "merge"]
               /\ UNCHANGED <<previousCommonWritable, raw, rawMap>>
  /\ UNCHANGED <<config, prov, dirty, isFirstUpdate,
                 cancelled, wg, stopCalls, configUpdated, loggerLevel,
                 metricsInterval, secretCallbacks, fired, callbackArg,
                 changes>>
  /\ UNCHANGED <<startupVars, diffVars, pureVars, errorsLogged>>

\* applyWritableUpdates, line 838: the merge into the live Writable
applyWritableUpdatesMerge(l) ==
  /\ pc[l] = "merge"
  /\ config' = MergeValues(config, rawMap[l])
  /\ pc' = [pc EXCEPT ![l] = "dispatch"]
  /\ UNCHANGED <<prov, dirty, isFirstUpdate,
                 previousCommonWritable, raw, rawMap, prevVals, cancelled, wg,
                 stopCalls, configUpdated, loggerLevel, metricsInterval,
                 secretCallbacks, fired, callbackArg, changes, errors>>
  /\ UNCHANGED <<startupVars, diffVars, pureVars, errorsLogged>>

\* variant: the secrets case is tested before the log level
switchCase_secretsFirst(prev, cur) ==
  IF cur.secrets # NilSecrets /\ cur.secrets # prev.secrets THEN "secrets"
  ELSE IF cur.logLevel # prev.logLevel THEN "loglevel"
  ELSE IF cur.interval # prev.interval THEN "interval"
  ELSE "default"

\* applyWritableUpdates, lines 849-889: the case the switch selects
switchCase(prev, cur) ==
  IF cur.logLevel # prev.logLevel THEN "loglevel"
  ELSE IF cur.secrets # NilSecrets /\ cur.secrets # prev.secrets THEN "secrets"
  ELSE IF cur.interval # prev.interval THEN "interval"
  ELSE "default"

\* variant: an interval that does not parse is taken for zero
intervalCase_invalidIsZero(interval, hasMetricsManager) ==
  IF ~hasMetricsManager THEN "unavailable" ELSE "reset"

\* applyWritableUpdates, lines 870-887: how the interval case ends: the
\* string does not parse (logged, break), no metrics manager is registered
\* (logged, break), or ResetInterval is called
intervalCase(interval, hasMetricsManager) ==
  IF interval = DurationErr THEN "invalid"
  ELSE IF ~hasMetricsManager THEN "unavailable"
  ELSE "reset"

\* variant: a zero interval is handed to the metrics manager as it is
effectiveInterval_zeroKept(interval) == interval

\* applyWritableUpdates, lines 876-879: a zero interval disables reporting
effectiveInterval(interval) == IF interval = 0 THEN mathMaxInt64 ELSE interval

\* applyWritableUpdates, lines 856-866: the SecretUpdatedAtSecretName calls
\* of an update, none without a secret provider
secretUpdates(c, prev, cur, hasSecretProvider) ==
  IF c = "secrets" /\ hasSecretProvider
  THEN getSecretNamesChanged(prev.secrets, cur.secrets)
  ELSE NilSecrets

\* variant: the signal is sent after every update
notifies_always(c) == configUpdated

\* applyWritableUpdates, lines 889-893: the default case sends on the
\* configUpdated stream if the service supplied one
notifies(c) == c = "default" /\ configUpdated

\* listenForCommonChanges, line 788, once processCommonConfigChange returned
refreshPrevious(l) ==
  IF l \in CommonLoops
  THEN /\ previousCommonWritable' = [previousCommonWritable EXCEPT ![l] = raw[l]]
       /\ raw' = [raw EXCEPT ![l] = NoMsg]
  ELSE UNCHANGED <<previousCommonWritable, raw>>

\* applyWritableUpdates, lines 842-894: the reads of the current values and
\* the switch; the default case blocks on the configUpdated stream
applyWritableUpdatesDispatch(l) ==
  /\ pc[l] = "dispatch"
  /\ LET prev == prevVals[l]
         cur == Tracked(config)
         c == switchCase(prev, cur)
         interval == ParseDuration(cur.interval)
     IN \E hasSecretProvider \in BOOLEAN, hasMetricsManager \in BOOLEAN :
          /\ loggerLevel' = IF c = "loglevel" THEN cur.logLevel ELSE loggerLevel
          /\ secretCallbacks' = secretUpdates(c, prev, cur, hasSecretProvider)
          /\ metricsInterval' =
               IF c = "interval" /\ intervalCase(interval, hasMetricsManager) = "reset"
               THEN effectiveInterval(interval)
               ELSE metricsInterval
          /\ fired' =
               IF c = "loglevel" THEN {"loglevel"}
               ELSE IF c = "secrets"
                    THEN (IF hasSecretProvider THEN {"secrets"} ELSE {})
               ELSE IF c = "interval"
                    THEN (IF intervalCase(interval, hasMetricsManager) = "reset"
                          THEN {"interval"}
                          ELSE IF intervalCase(interval, hasMetricsManager) = "invalid"
                          THEN {"invalid interval logged"} ELSE {})
               ELSE (IF notifies(c) THEN {"notify"} ELSE {})
          /\ IF notifies(c)
             THEN /\ pc' = [pc EXCEPT ![l] = "send"]
                  /\ UNCHANGED <<previousCommonWritable, raw>>
             ELSE /\ pc' = [pc EXCEPT ![l] = "select"]
                  /\ refreshPrevious(l)
  /\ rawMap' = [rawMap EXCEPT ![l] = NoMsg]
  /\ prevVals' = [prevVals EXCEPT ![l] = NoVals]
  /\ UNCHANGED <<config, prov, dirty, isFirstUpdate,
                 cancelled, wg, stopCalls, configUpdated, changes, errors,
                 callbackArg>>
  /\ UNCHANGED <<startupVars, diffVars, pureVars, errorsLogged>>

\* variant: after the send the loop goes through the push once more
configUpdatedReceived_again(l) ==
  /\ pc[l] = "send"
  /\ pc' = [pc EXCEPT ![l] = "merge"]
  /\ refreshPrevious(l)
  /\ UNCHANGED <<config, prov, dirty, isFirstUpdate,
                 rawMap, prevVals, cancelled, wg, stopCalls, configUpdated,
                 loggerLevel, metricsInterval, secretCallbacks, fired,
                 callbackArg, changes, errors>>
  /\ UNCHANGED <<startupVars, diffVars, pureVars, errorsLogged>>

\* a reader takes the signal off the unbuffered configUpdated stream, which
\* lets the send of line 892 return
configUpdatedReceived(l) ==
  /\ pc[l] = "send"
  /\ pc' = [pc EXCEPT ![l] = "select"]
  /\ refreshPrevious(l)
  /\ UNCHANGED <<config, prov, dirty, isFirstUpdate,
                 rawMap, prevVals, cancelled, wg, stopCalls, configUpdated,
                 loggerLevel, metricsInterval, secretCallbacks, fired,
                 callbackArg, changes, errors>>
  /\ UNCHANGED <<startupVars, diffVars, pureVars, errorsLogged>>

\* variant: the callback is called for the first push too
ListenForCustomConfigChanges_noFirstCheck ==
  LET l == "custom" IN
  /\ pc[l] = "select"
  /\ updateReady(l)
  /\ isFirstUpdate' = [isFirstUpdate EXCEPT ![l] = FALSE]
  /\ callbackArg' = Snapshot(l)
  /\ dirty' = [dirty EXCEPT ![l] = FALSE]
  /\ UNCHANGED <<config, prov, pc, previousCommonWritable,
                 raw, rawMap, prevVals, cancelled, wg, stopCalls,
                 configUpdated, loggerLevel, metricsInterval, secretCallbacks,
                 fired, changes, errors>>
  /\ UNCHANGED <<startupVars, diffVars, pureVars, errorsLogged>>

\* ListenForCustomConfigChanges, case raw := <-updateStream
ListenForCustomConfigChanges ==
  LET l == "custom" IN
  /\ pc[l] = "select"
  /\ updateReady(l)
  /\ IF isFirstUpdate[l]
     THEN /\ isFirstUpdate' = [isFirstUpdate EXCEPT ![l] = FALSE]
          /\ UNCHANGED callbackArg
     ELSE /\ callbackArg' = Snapshot(l)
          /\ UNCHANGED isFirstUpdate
  /\ dirty' = [dirty EXCEPT ![l] = FALSE]
  /\ UNCHANGED <<config, prov, pc, previousCommonWritable,
                 raw, rawMap, prevVals, cancelled, wg, stopCalls,
                 configUpdated, loggerLevel, metricsInterval, secretCallbacks,
                 fired, changes, errors>>
  /\ UNCHANGED <<startupVars, diffVars, pureVars, errorsLogged>>

Next ==
  \/ \E s \in Sections, k \in WKeys \cup {KCustom}, v \in AllVals : ProviderPut(s, k, v)
  \/ \E s \in Sections, k \in WKeys \cup {KCustom} : ProviderDelete(s, k)
  \/ Cancel
  \/ \E l \in Loops : ctxDone(l)
  \/ \E l \in Loops : errorStreamCase(l)
  \/ \E l \in WritableLoops : updateStreamClosed(l)
  \/ listenForPrivateChanges
  \/ \E l \in CommonLoops : listenForCommonChanges(l)
  \/ \E l \in CommonLoops : processCommonConfigChange(l)
  \/ \E l \in WritableLoops : applyWritableUpdatesMerge(l)
  \/ \E l \in WritableLoops : applyWritableUpdatesDispatch(l)
  \/ \E l \in WritableLoops : configUpdatedReceived(l)
  \/ ListenForCustomConfigChanges

Spec == Init /\ [][Next]_vars

\* one step of the goroutine of loop l; a runnable goroutine is eventually
\* scheduled, which of the ready cases of its select it takes is its choice.
\* Nothing in the code makes anyone read the configUpdated stream, and an
\* update or an error on a stream is the provider's doing
LoopStep(l) ==
  \/ ctxDone(l)
  \/ l = "private" /\ listenForPrivateChanges
  \/ l = "custom" /\ ListenForCustomConfigChanges
  \/ l \in CommonLoops /\ (listenForCommonChanges(l) \/ processCommonConfigChange(l))
  \/ l \in WritableLoops /\ (applyWritableUpdatesMerge(l) \/ applyWritableUpdatesDispatch(l))

Fairness == \A l \in Loops : WF_vars(LoopStep(l))

\* the runs followed up to termination: a service with a configUpdated
\* stream whose provider never fails, and a service with a custom loop and
\* no configUpdated stream whose provider may fail
InitCancel ==
  \/ /\ InitLoops({"private", "all"})
     /\ ProcessReturned /\ NoDiff /\ NoPure
     /\ configUpdated = TRUE
     /\ changes = [c \in {"common", "private"} |-> 0]
     /\ errors = MaxErrors
  \/ /\ InitLoops({"private", "all", "custom"})
     /\ ProcessReturned /\ NoDiff /\ NoPure
     /\ configUpdated = FALSE
     /\ changes = [c \in {"common", "private"} |-> 0]
     /\ errors = 0

FairSpec == InitCancel /\ [][Next]_vars /\ Fairness

\* =============================================== start-up: Process
\* what each source holds for a leaf it holds
SourceVal(src, k) ==
  IF src = "all" THEN (IF k = PLogLevel THEN "INFO" ELSE "edgex-core-data")
  ELSE IF src = "type" THEN (IF k = PLogLevel THEN "WARN" ELSE "edgex-app")
  ELSE IF src = "private" THEN (IF k = PLogLevel THEN "DEBUG" ELSE "my-host")
  ELSE IF src = "file" THEN (IF k = PLogLevel THEN "TRACE" ELSE "file-host")
  ELSE (IF k = PLogLevel THEN "ERROR" ELSE "env-host")
Section(src, keys) == [k \in keys |-> SourceVal(src, k)]

\* config.ServiceTypeApp and config.ServiceTypeDevice have a section of
\* their own in the common configuration
ServiceTypes == {"core", "app", "device"}
TypedService(f) == f.serviceType \in {"app", "device"}
TypeSectionOf(f) == IF f.serviceType = "app" THEN "app" ELSE "device"

\* Process is entered: the flags, the service type, what the service's
\* GetBootstrap hands out, and the sources. "all" and "type" are the sections
\* of the common source in use (the provider, or the common file), the type
\* section being the one of the service's type; "commonFile" tells which of
\* the two the common file has; "private" is the provider's section of the
\* service, "file" the private file, "env" the environment overrides
InitProcess ==
  /\ flags \in [useProvider : BOOLEAN, overwriteConfig : BOOLEAN,
                devMode : BOOLEAN, commonConfig : BOOLEAN,
                serviceType : ServiceTypes, hasServiceInfo : BOOLEAN]
  /\ \E a \in SUBSET PKeys, t \in SUBSET {PHost}, p \in SUBSET PKeys,
        f \in SUBSET PKeys, e \in SUBSET {PLogLevel},
        cf \in SUBSET {"all", "type"} :
       /\ (flags.useProvider \/ ~flags.commonConfig) => cf = {"all", "type"}
       /\ "all" \notin cf => a = {}
       /\ "type" \notin cf => t = {}
       /\ sources = [all |-> Section("all", a), type |-> Section("type", t),
                     private |-> Section("private", p), file |-> Section("file", f),
                     env |-> Section("env", e), commonFile |-> cf,
                     custom |-> EmptyMap]
  /\ serviceConfig = [k \in PKeys |-> Zero]
  /\ providerHasConfig = FALSE
  /\ step = "start"
  /\ calls = <<>>
  /\ InitLoops({})
  /\ configUpdated = FALSE
  /\ changes = [c \in {"common", "private"} |-> 0]
  /\ errors = 0
  /\ NoDiff /\ NoPure

\* client.GetConfigurationKeys("") of a section stored under base
ProviderKeys(section, base) ==
  {base \o Slash \o BuildBaseKey(p) : p \in DOMAIN section}

\* loadConfigFromProvider: GetConfiguration fills the struct passed in with
\* what the section holds, UpdateFromRaw takes it over
loadConfigFromProvider(cfg, section) ==
  [k \in DOMAIN cfg |-> IF k \in DOMAIN section THEN section[k] ELSE cfg[k]]

\* loadCommonConfig, lines 320-388: all-services unfiltered, then for an app
\* or a device service the section of its type, filtered to its stored keys
\* and merged
loadCommonConfig(cfg) ==
  LET common == loadConfigFromProvider(cfg, sources.all)
      sectionKey == BuildBaseKey(<<configStem, CoreCommonConfigServiceKey, appServicesKey>>)
      serviceTypeConfig == loadConfigFromProvider(common, sources.type)
      serviceTypeConfigMap ==
        RemoveUnusedSettings(serviceTypeConfig, sectionKey,
                             ProviderKeys(sources.type, sectionKey))
  IN IF TypedService(flags) THEN MergeValues(common, serviceTypeConfigMap)
     ELSE common

\* variant: the all-services section is read before the marker is awaited
loadCommonConfigCalls_loadBeforeReady ==
  <<"createProvider/all", "GetConfiguration/all", "waitForCommonConfig">> \o
  (IF TypedService(flags)
   THEN <<"createProvider/" \o TypeSectionOf(flags),
          "GetConfiguration/" \o TypeSectionOf(flags),
          "GetConfigurationKeys/" \o TypeSectionOf(flags)>>
   ELSE <<>>)

\* loadCommonConfig, lines 311-351: the provider calls it makes, in order
loadCommonConfigCalls ==
  <<"createProvider/all", "waitForCommonConfig", "GetConfiguration/all">> \o
  (IF TypedService(flags)
   THEN <<"createProvider/" \o TypeSectionOf(flags),
          "GetConfiguration/" \o TypeSectionOf(flags),
          "GetConfigurationKeys/" \o TypeSectionOf(flags)>>
   ELSE <<>>)

\* variant: the section of the service's type is optional in the common file
commonFileError_typeOptional == "all" \notin sources.commonFile

\* loadCommonConfigFromFile, lines 405-424: the errors "could not find ...
\* section": all-services is missing, or the service is an app or a device
\* service and the section of its type is missing
commonFileError ==
  \/ "all" \notin sources.commonFile
  \/ TypedService(flags) /\ "type" \notin sources.commonFile

\* loadCommonConfigFromFile, lines 427-433: utils.MergeMaps of the type
\* section over the all-services section, then ConvertFromMap
loadCommonConfigFromFile(cfg) ==
  LET allServicesConfig ==
        IF TypedService(flags)
        THEN [k \in DOMAIN sources.all \cup DOMAIN sources.type |->
                IF k \in DOMAIN sources.type THEN sources.type[k] ELSE sources.all[k]]
        ELSE sources.all
  IN MergeValues(cfg, allServicesConfig)

\* envVars.OverrideConfiguration / OverrideConfigMapValues: an override
\* replaces the value of a leaf the target has
OverrideConfigMapValues(configMap) ==
  [k \in DOMAIN configMap |->
     IF k \in DOMAIN sources.env THEN sources.env[k] ELSE configMap[k]]

\* client.PutConfigurationMap(configMap, overwrite)
PutConfigurationMap(section, configMap, overwrite) ==
  [k \in DOMAIN section \cup DOMAIN configMap |->
     IF k \in DOMAIN configMap /\ (overwrite \/ k \notin DOMAIN section)
     THEN configMap[k] ELSE section[k]]

\* Process, lines 134-206: the common configuration, from the provider or
\* from the common file; any failure makes Process return the error, and a
\* common file without a section it needs is one
ProcessLoadCommon ==
  /\ step = "start"
  /\ \E failed \in BOOLEAN :
       /\ failed => (flags.useProvider \/ flags.commonConfig)
       /\ IF failed
          THEN /\ step' = "failed"
               /\ calls' = IF flags.useProvider THEN calls
                           ELSE calls \o <<"loadConfigYamlFromFile/common">>
               /\ UNCHANGED serviceConfig
          ELSE IF ~flags.useProvider /\ flags.commonConfig /\ commonFileError
          THEN /\ step' = "failed"
               /\ calls' = calls \o <<"loadConfigYamlFromFile/common",
                                      "error/could not find section">>
               /\ UNCHANGED serviceConfig
          ELSE /\ step' = "common"
               /\ serviceConfig' =
                    IF flags.useProvider THEN loadCommonConfig(serviceConfig)
                    ELSE IF flags.commonConfig
                    THEN OverrideConfigMapValues(loadCommonConfigFromFile(serviceConfig))
                    ELSE serviceConfig
               /\ calls' = calls \o
                    (IF flags.useProvider THEN loadCommonConfigCalls
                     ELSE IF flags.commonConfig
                     THEN <<"loadConfigYamlFromFile/common">>
                     ELSE <<>>)
  /\ UNCHANGED <<flags, sources, providerHasConfig, watchVars, diffVars, pureVars>>

\* privateConfigClient.HasConfiguration(), line 156
HasConfiguration == DOMAIN sources.private # {}

\* variant: the overwrite flag is not looked at
loadsPrivateFile_ignoreOverwrite(f, hasConfig) == ~f.useProvider \/ ~hasConfig

\* the condition of line 209
loadsPrivateFile(f, hasConfig) ==
  ~f.useProvider \/ ~hasConfig \/ f.overwriteConfig

\* variant: the private configuration is pushed without overwriting
PutCall_neverOverwrite(overwrite) == "PutConfigurationMap/false"

\* the call of line 229, with the flag it passes
PutCall(overwrite) ==
  IF overwrite THEN "PutConfigurationMap/true" ELSE "PutConfigurationMap/false"

\* Process, lines 143-235: the calls made for the private configuration
privateCalls(f, hasConfig) ==
  (IF f.useProvider
   THEN <<"createProvider/private", "HasConfiguration">> \o
        (IF hasConfig /\ ~f.overwriteConfig
         THEN <<"GetConfiguration/private", "GetConfigurationKeys/private">>
         ELSE <<>>)
   ELSE <<>>) \o
  (IF loadsPrivateFile(f, hasConfig)
   THEN <<"loadConfigYamlFromFile/private">> \o
        (IF f.useProvider THEN <<PutCall(f.overwriteConfig)>> ELSE <<>>)
   ELSE <<>>)

\* Process, lines 143-235: the private configuration, from the provider
\* (copied struct, loaded, filtered to the stored keys, merged) or from the
\* private file (overrides applied, merged, pushed to the provider)
ProcessLoadPrivate ==
  /\ step = "common"
  /\ \E failed \in BOOLEAN :
       IF failed
       THEN /\ step' = "failed"
            /\ UNCHANGED <<serviceConfig, sources, providerHasConfig, calls>>
       ELSE LET hasConfig == flags.useProvider /\ HasConfiguration
                baseKey == BuildBaseKey(<<configStem, serviceKey>>)
                privateServiceConfig ==
                  loadConfigFromProvider(serviceConfig, sources.private)
                privateConfigMap ==
                  RemoveUnusedSettings(privateServiceConfig, baseKey,
                                       ProviderKeys(sources.private, baseKey))
                fromProvider ==
                  IF hasConfig /\ ~flags.overwriteConfig
                  THEN MergeValues(serviceConfig, privateConfigMap)
                  ELSE serviceConfig
                configMap == OverrideConfigMapValues(sources.file)
            IN /\ step' = "private"
               /\ providerHasConfig' = hasConfig
               /\ calls' = calls \o privateCalls(flags, hasConfig)
               /\ IF loadsPrivateFile(flags, hasConfig)
                  THEN /\ serviceConfig' = MergeValues(fromProvider, configMap)
                       /\ sources' =
                            IF flags.useProvider
                            THEN [sources EXCEPT !.private =
                                    PutConfigurationMap(@, configMap, flags.overwriteConfig)]
                            ELSE sources
                  ELSE /\ serviceConfig' = fromProvider
                       /\ UNCHANGED sources
  /\ UNCHANGED <<flags, watchVars, diffVars, pureVars>>

\* cp.appConfigClient and cp.deviceConfigClient are not nil (lines 243, 247)
Called(c) == \E i \in DOMAIN calls : calls[i] = c
appConfigClient == Called("createProvider/app")
deviceConfigClient == Called("createProvider/device")

\* variant: the loops of both service types are started for a typed service
listenCalls_bothTypes ==
  IF ~flags.useProvider THEN <<>>
  ELSE <<"listen/private", "listen/all">> \o
       (IF appConfigClient \/ deviceConfigClient
        THEN <<"listen/app", "listen/device">> ELSE <<>>)

\* Process, lines 238-251: the listen functions called, in order
listenCalls ==
  IF ~flags.useProvider THEN <<>>
  ELSE <<"listen/private", "listen/all">> \o
       (IF appConfigClient THEN <<"listen/app">> ELSE <<>>) \o
       (IF deviceConfigClient THEN <<"listen/device">> ELSE <<>>)

\* the watch loops Process starts, lines 238-251
Started ==
  {l \in {"private", "all"} : Called("createProvider/" \o l) /\ flags.useProvider}
  \cup (IF flags.useProvider /\ (appConfigClient \/ deviceConfigClient)
        THEN {"type"} ELSE {})

\* Process, lines 238-285: the watch loops, then SetLogLevel, whose error is
\* what Process returns after it has gone through the dev-mode block, which
\* sets "localhost" for the hosts GetBootstrap hands out
ProcessFinish ==
  /\ step = "private"
  /\ \E logLevelErr \in BOOLEAN :
       /\ step' = IF logLevelErr THEN "failed" ELSE "done"
       /\ loggerLevel' = IF logLevelErr THEN loggerLevel ELSE serviceConfig[PLogLevel]
  /\ calls' = calls \o listenCalls \o <<"SetLogLevel">>
  /\ pc' = [l \in Loops |-> IF l \in Started THEN "select" ELSE pc[l]]
  /\ dirty' = [l \in Loops |-> l \in Started]
  /\ wg' = wg + Cardinality(Started)
  /\ serviceConfig' =
       IF flags.devMode /\ flags.hasServiceInfo
       THEN [serviceConfig EXCEPT ![PHost] = "localhost"]
       ELSE serviceConfig
  /\ UNCHANGED <<flags, sources, providerHasConfig, diffVars, pureVars, config, prov, isFirstUpdate,
                 previousCommonWritable, raw, rawMap, prevVals, cancelled,
                 stopCalls, configUpdated, metricsInterval, secretCallbacks,
                 fired, callbackArg, changes, errors, errorsLogged>>

NextProcess == ProcessLoadCommon \/ ProcessLoadPrivate \/ ProcessFinish

SpecProcess == InitProcess /\ [][NextProcess]_vars

\* ================================= the diff of isPrivateOverride, alone
\* the maps utils.ConvertToMap yields, here: up to two top-level keys, each
\* a scalar, a sequence, or a map with up to one key
Leaves == {Scalar("1"), Scalar("2"), Sequence(<<"1">>), Sequence(<<"2">>)}
SubMaps == UNION {[D -> Leaves] : D \in SUBSET {<<"c">>}}
Values == Leaves \cup {Mapping(m) : m \in SubMaps}
Maps == UNION {[D -> Values] : D \in SUBSET {<<"a">>, <<"b">>}}

\* isPrivateOverride was called with some previous and some updated value
InitDiff ==
  /\ previousMap \in Maps
  /\ updatedMap \in Maps
  /\ changedKey = NoKey
  /\ step = "walk"
  /\ flags = [useProvider |-> TRUE, overwriteConfig |-> FALSE, devMode |-> FALSE,
              commonConfig |-> FALSE, serviceType |-> "core", hasServiceInfo |-> TRUE]
  /\ sources = NoSources
  /\ serviceConfig = [k \in PKeys |-> Zero]
  /\ providerHasConfig = TRUE
  /\ calls = <<>>
  /\ InitLoops({})
  /\ configUpdated = FALSE
  /\ changes = [c \in {"common", "private"} |-> 0]
  /\ errors = 0
  /\ NoPure

\* isPrivateOverride, line 815: the walk from the previous to the updated
\* map, in one of the orders in which Go may range over the maps
isPrivateOverrideWalk ==
  /\ step = "walk"
  /\ \E key \in walkMapForChange(previousMap, updatedMap, NoKey) :
       /\ changedKey' = key
       /\ step' = IF key = Panic THEN "panic"
                  ELSE IF key = NoKey THEN "swapped" ELSE "done"
  /\ UNCHANGED <<previousMap, updatedMap, flags, sources, serviceConfig,
                 providerHasConfig, calls, watchVars, pureVars>>

\* variant: the second walk goes the same way as the first
isPrivateOverrideSwappedWalk_sameWay ==
  /\ step = "swapped"
  /\ \E key \in walkMapForChange(previousMap, updatedMap, NoKey) :
       /\ changedKey' = key
       /\ step' = IF key = Panic THEN "panic" ELSE "done"
  /\ UNCHANGED <<previousMap, updatedMap, flags, sources, serviceConfig,
                 providerHasConfig, calls, watchVars, pureVars>>

\* isPrivateOverride, lines 816-822: no key was found, the walk the other
\* way around looks for a removed item
isPrivateOverrideSwappedWalk ==
  /\ step = "swapped"
  /\ \E key \in walkMapForChange(updatedMap, previousMap, NoKey) :
       /\ changedKey' = key
       /\ step' = IF key = Panic THEN "panic" ELSE "done"
  /\ UNCHANGED <<previousMap, updatedMap, flags, sources, serviceConfig,
                 providerHasConfig, calls, watchVars, pureVars>>

NextDiff == isPrivateOverrideWalk \/ isPrivateOverrideSwappedWalk

SpecDiff == InitDiff /\ [][NextDiff]_vars

\* ===================== the secrets case of applyWritableUpdates, alone
\* the insecure-secrets maps the dispatcher compares: up to two secrets,
\* each with a name and with data that may be nil
SecretKeys == {"DB", "MQ"}
SecretNames == {"redisdb", "mqtt"}
SecretDatas == {NilData, "pw1", "pw2"}
SecretMaps ==
  UNION {[keys -> [SecretName : SecretNames, SecretData : SecretDatas]] :
           keys \in SUBSET SecretKeys}

\* applyWritableUpdates has merged (line 838) and read the current values
InitSecrets ==
  /\ previousInsecureSecrets \in SecretMaps
  /\ currentInsecureSecrets \in SecretMaps
  /\ previousLogLevel = "INFO"
  /\ currentLogLevel \in {"INFO", "DEBUG"}
  /\ step = "dispatch"
  /\ flags = [useProvider |-> TRUE, overwriteConfig |-> FALSE, devMode |-> FALSE,
              commonConfig |-> FALSE, serviceType |-> "core", hasServiceInfo |-> TRUE]
  /\ sources = NoSources
  /\ serviceConfig = [k \in PKeys |-> Zero]
  /\ providerHasConfig = TRUE
  /\ calls = <<>>
  /\ InitLoops({})
  /\ configUpdated = FALSE
  /\ changes = [c \in {"common", "private"} |-> 0]
  /\ errors = 0
  /\ NoDiff /\ NoWait /\ NoFilter /\ NoAuth /\ NoLoad /\ NoProvider

\* applyWritableUpdates, lines 848-866, for an unchanged telemetry interval
applyWritableUpdatesSecrets ==
  /\ step = "dispatch"
  /\ LET prev == [logLevel |-> previousLogLevel, interval |-> "30s",
                  secrets |-> previousInsecureSecrets]
         cur == [logLevel |-> currentLogLevel, interval |-> "30s",
                 secrets |-> currentInsecureSecrets]
         c == switchCase(prev, cur)
     IN \E hasSecretProvider \in BOOLEAN :
          /\ secretCallbacks' = secretUpdates(c, prev, cur, hasSecretProvider)
          /\ loggerLevel' = IF c = "loglevel" THEN cur.logLevel ELSE loggerLevel
          /\ fired' = IF c = "loglevel" THEN {"loglevel"}
                      ELSE IF c = "secrets" /\ hasSecretProvider THEN {"secrets"}
                      ELSE {}
  /\ step' = "done"
  /\ UNCHANGED <<flags, sources, serviceConfig, providerHasConfig, calls, diffVars,
                 pureVars, config, prov, dirty, pc, isFirstUpdate,
                 previousCommonWritable, raw, rawMap, prevVals, cancelled, wg,
                 stopCalls, configUpdated, metricsInterval, callbackArg,
                 changes, errors, errorsLogged>>

NextSecrets == applyWritableUpdatesSecrets

SpecSecrets == InitSecrets /\ [][NextSecrets]_vars

\* ================================== waitForCommonConfig, alone
\* the longest start-up duration followed, in sleep intervals
MaxDeadline == 3

\* what GetConfigurationValueByFullPath may give for the readiness marker:
\* an error for a missing value, or its bytes
MarkerMissing == "missing"
MarkerValues == {MarkerMissing, "true", "1", "false", "yes"}

\* strconv.ParseBool: the value, and whether the string is no boolean
ParseBool(str) ==
  IF str \in {"1", "t", "T", "TRUE", "true", "True"}
  THEN [val |-> TRUE, err |-> FALSE]
  ELSE IF str \in {"0", "f", "F", "FALSE", "false", "False"}
  THEN [val |-> FALSE, err |-> FALSE]
  ELSE [val |-> FALSE, err |-> TRUE]

\* variant: a marker that is no boolean counts as ready
isCommonConfigReady_errIsReady(str) == ParseBool(str).val \/ ParseBool(str).err

\* waitForCommonConfig, lines 932-936: a marker that is no boolean is not ready
isCommonConfigReady(str) ==
  IF ParseBool(str).err THEN FALSE ELSE ParseBool(str).val

\* the errors of waitForCommonConfig
ErrAbortedAlive == "aborted waiting Configuration Provider to be available"
ErrNotAvailable == "configuration provider is not available"
ErrAbortedReady == "aborted waiting for Common Configuration to be available"
ErrNotLoaded == "common config is not loaded"

\* cp.startupTimer: HasNotElapsed, and the time after a pause of d intervals
HasNotElapsed == elapsed < deadline
After(t, d) == IF t + d > deadline THEN deadline ELSE t + d

\* loadCommonConfig has created the all-services client and calls
\* waitForCommonConfig (line 317) with a start-up timer of some duration
InitWait ==
  /\ waitPc = "alive"
  /\ isAlive = FALSE
  /\ isConfigReady = FALSE
  /\ commonConfigReady = Zero
  /\ elapsed = 0
  /\ deadline \in 0..MaxDeadline
  /\ waitErr = Zero
  /\ step = "start"
  /\ flags = [useProvider |-> TRUE, overwriteConfig |-> FALSE, devMode |-> FALSE,
              commonConfig |-> FALSE, serviceType |-> "core", hasServiceInfo |-> TRUE]
  /\ sources = NoSources
  /\ serviceConfig = [k \in PKeys |-> Zero]
  /\ providerHasConfig = FALSE
  /\ calls = <<"createProvider/all">>
  /\ InitLoops({})
  /\ configUpdated = FALSE
  /\ changes = [c \in {"common", "private"} |-> 0]
  /\ errors = 0
  /\ NoDiff /\ NoSecretsDiff /\ NoFilter /\ NoAuth /\ NoLoad /\ NoProvider

\* waitForCommonConfig, lines 900-917: one round of the first loop, or its
\* end. The provider answers IsAlive after no or one interval; a provider
\* that is not alive makes the loop look at the context and sleep
waitForProvider ==
  /\ waitPc = "alive"
  /\ IF ~HasNotElapsed
     THEN /\ waitPc' = "returned"
          /\ waitErr' = ErrNotAvailable
          /\ UNCHANGED <<isAlive, elapsed>>
     ELSE \E up \in BOOLEAN, d \in {0, 1} :
            IF up
            THEN /\ isAlive' = TRUE
                 /\ waitPc' = "ready"
                 /\ elapsed' = After(elapsed, d)
                 /\ UNCHANGED waitErr
            ELSE IF cancelled
            THEN /\ waitPc' = "returned"
                 /\ waitErr' = ErrAbortedAlive
                 /\ elapsed' = After(elapsed, d)
                 /\ UNCHANGED isAlive
            ELSE /\ elapsed' = After(elapsed, d + 1)
                 /\ UNCHANGED <<waitPc, isAlive, waitErr>>
  /\ UNCHANGED <<isConfigReady, commonConfigReady, deadline, secretVars,
                 filterVars, authVars, loadVars, providerVars,
                 startupVars, diffVars, watchVars>>

\* waitForCommonConfig, lines 920-954: one round of the second loop, or its
\* end. A missing marker makes the loop sleep without a look at the context;
\* a marker that is not true makes it look at the context and sleep
waitForMarker ==
  /\ waitPc = "ready"
  /\ IF ~HasNotElapsed
     THEN /\ waitPc' = "returned"
          /\ waitErr' = ErrNotLoaded
          /\ UNCHANGED <<isConfigReady, commonConfigReady, elapsed>>
     ELSE \E v \in MarkerValues, d \in {0, 1} :
            /\ commonConfigReady' = v
            /\ IF v = MarkerMissing
               THEN /\ elapsed' = After(elapsed, d + 1)
                    /\ UNCHANGED <<waitPc, isConfigReady, waitErr>>
               ELSE IF isCommonConfigReady(v)
               THEN /\ isConfigReady' = TRUE
                    /\ waitPc' = "returned"
                    /\ elapsed' = After(elapsed, d)
                    /\ UNCHANGED waitErr
               ELSE IF cancelled
               THEN /\ waitPc' = "returned"
                    /\ waitErr' = ErrAbortedReady
                    /\ elapsed' = After(elapsed, d)
                    /\ UNCHANGED isConfigReady
               ELSE /\ elapsed' = After(elapsed, d + 1)
                    /\ UNCHANGED <<waitPc, isConfigReady, waitErr>>
  /\ UNCHANGED <<isAlive, deadline, secretVars, filterVars, authVars,
                 loadVars, providerVars, startupVars, diffVars, watchVars>>

waitForCommonConfig == waitForProvider \/ waitForMarker

NextWait == Cancel \/ waitForProvider \/ waitForMarker

\* Process runs waitForCommonConfig on the goroutine that called it: a round
\* that can be taken is taken
SpecWait == InitWait /\ [][NextWait]_vars /\ WF_vars(waitForCommonConfig)

\* ================================= utils.RemoveUnusedSettings, alone
\* a typed configuration with the fields A, B.C and B.D
FilterPaths == {<< <<"A">> >>, << <<"B">>, <<"C">> >>, << <<"B">>, <<"D">> >>}
FilterVals == {"1", "2", "3"}
FilterBases == {<<"svc">>, <<"other">>}
\* keys a provider may hold: leaves under either base, and a section key
FilterKeys ==
  {b \o Slash \o BuildBaseKey(p) : b \in {<<"svc">>}, p \in FilterPaths}
    \cup {<<"other">> \o Slash \o <<"A">>, <<"svc">> \o Slash \o <<"B">>}

\* RemoveUnusedSettings is about to be called
InitFilter ==
  /\ candidate \in [FilterPaths -> FilterVals]
  /\ basePath \in FilterBases
  /\ knownKeys \in SUBSET FilterKeys
  /\ filtered = EmptyMap
  /\ step = "filter"
  /\ flags = [useProvider |-> TRUE, overwriteConfig |-> FALSE, devMode |-> FALSE,
              commonConfig |-> FALSE, serviceType |-> "core", hasServiceInfo |-> TRUE]
  /\ sources = NoSources
  /\ serviceConfig = [k \in PKeys |-> Zero]
  /\ providerHasConfig = TRUE
  /\ calls = <<>>
  /\ InitLoops({})
  /\ configUpdated = FALSE
  /\ changes = [c \in {"common", "private"} |-> 0]
  /\ errors = 0
  /\ NoDiff /\ NoSecretsDiff /\ NoWait /\ NoAuth /\ NoLoad /\ NoProvider

\* the call of utils.RemoveUnusedSettings
removeUnusedSettings ==
  /\ step = "filter"
  /\ filtered' = RemoveUnusedSettings(candidate, basePath, knownKeys)
  /\ step' = "filtered"
  /\ UNCHANGED <<candidate, basePath, knownKeys, flags, sources, serviceConfig,
                 providerHasConfig, calls, diffVars, secretVars, waitVars,
                 authVars, loadVars, providerVars, watchVars>>

NextFilter == removeUnusedSettings

SpecFilter == InitFilter /\ [][NextFilter]_vars

\* ============================ VaultAuthenticationHandlerFunc, alone
\* a header is a sequence of symbols: the space, the scheme words, and one
\* symbol other text is made of
MaxHeaderLen == 4
Space == " "
HeaderSymbols == {"Bearer", "BEARER", "Basic", Space, "x"}
Headers == UNION {[1..n -> HeaderSymbols] : n \in 0..MaxHeaderLen}
StatusUnauthorized == 401
StatusInternalServerError == 500

\* strings.Split(s, " "): the fields between the spaces, empty ones included;
\* a string without a space is its only field
RECURSIVE Split(_)
Split(s) ==
  IF \A i \in DOMAIN s : s[i] # Space THEN <<s>>
  ELSE LET i == CHOOSE j \in DOMAIN s :
                  s[j] = Space /\ \A h \in 1..(j - 1) : s[h] # Space
       IN <<SubSeq(s, 1, i - 1)>> \o Split(SubSeq(s, i + 1, Len(s)))

\* case folding of one symbol
Fold(a) == IF a \in {"Bearer", "BEARER"} THEN "bearer"
           ELSE IF a = "Basic" THEN "basic" ELSE a

\* variant: the comparison is case-sensitive
EqualFold_exact(s, t) == s = t

\* strings.EqualFold
EqualFold(s, t) ==
  Len(s) = Len(t) /\ \A i \in DOMAIN s : Fold(s[i]) = Fold(t[i])

\* a request came in
InitAuth ==
  /\ authHeader \in Headers
  /\ jwtChecked = <<>>
  /\ jwtAnswer = "none"
  /\ httpStatus = 0
  /\ innerCalls = 0
  /\ step = "request"
  /\ flags = [useProvider |-> TRUE, overwriteConfig |-> FALSE, devMode |-> FALSE,
              commonConfig |-> FALSE, serviceType |-> "core", hasServiceInfo |-> TRUE]
  /\ sources = NoSources
  /\ serviceConfig = [k \in PKeys |-> Zero]
  /\ providerHasConfig = TRUE
  /\ calls = <<>>
  /\ InitLoops({})
  /\ configUpdated = FALSE
  /\ changes = [c \in {"common", "private"} |-> 0]
  /\ errors = 0
  /\ NoDiff /\ NoSecretsDiff /\ NoWait /\ NoFilter /\ NoLoad /\ NoProvider

\* the handler VaultAuthenticationHandlerFunc returns, lines 48-69;
\* secretProvider.IsJWTValid answers true, false or an error
VaultAuthenticationHandlerFunc ==
  /\ step = "request"
  /\ LET authParts == Split(authHeader)
     IN IF Len(authParts) >= 2 /\ EqualFold(authParts[1], <<"Bearer">>)
        THEN \E answer \in {"valid", "invalid", "error"} :
               /\ jwtChecked' = Append(jwtChecked, authParts[2])
               /\ jwtAnswer' = answer
               /\ httpStatus' = IF answer = "error" THEN StatusInternalServerError
                                ELSE IF answer = "invalid" THEN StatusUnauthorized
                                ELSE 0
               /\ innerCalls' = IF answer = "valid" THEN innerCalls + 1
                                ELSE innerCalls
        ELSE /\ httpStatus' = StatusUnauthorized
             /\ UNCHANGED <<jwtChecked, jwtAnswer, innerCalls>>
  /\ step' = "served"
  /\ UNCHANGED <<authHeader, flags, sources, serviceConfig, providerHasConfig,
                 calls, diffVars, secretVars, waitVars, filterVars, loadVars,
                 providerVars, watchVars>>

NextAuth == VaultAuthenticationHandlerFunc

SpecAuth == InitAuth /\ [][NextAuth]_vars

\* ====================== applyWritableUpdates with a merge that may fail
\* the filtered maps a push can bring: any leaves of the Writable
Overlays == UNION {{f \in [D -> AllVals] : \A k \in D : f[k] \in Vals(k)} :
                     D \in SUBSET WKeys}

\* the private loop has taken a push after its first and has read the
\* previous values (lines 834-836)
InitApply ==
  /\ prov = [s \in Sections |->
               IF s = "all" THEN InitAllServices
               ELSE IF s = "type" THEN InitServiceType
               ELSE IF s = "private" THEN InitPrivate
               ELSE [k \in {KCustom} |-> "c1"]]
  /\ config = MergeValues(MergeValues(ZeroConfig, InitAllServices), InitPrivate)
  /\ loggerLevel = InitPrivate[KLogLevel]
  /\ dirty = [l \in Loops |-> FALSE]
  /\ pc = [l \in Loops |-> IF l = "private" THEN "merge" ELSE "none"]
  /\ isFirstUpdate = [l \in Loops |-> l # "private"]
  /\ previousCommonWritable = [l \in Loops |-> NoMsg]
  /\ raw = [l \in Loops |-> NoMsg]
  /\ \E m \in Overlays : rawMap = [l \in Loops |-> IF l = "private" THEN m ELSE NoMsg]
  /\ prevVals = [l \in Loops |-> IF l = "private" THEN Tracked(config) ELSE NoVals]
  /\ cancelled = FALSE
  /\ wg = 1
  /\ stopCalls = [l \in Loops |-> 0]
  /\ metricsInterval = ParseDuration("30s")
  /\ secretCallbacks = NilSecrets
  /\ fired = {}
  /\ callbackArg = NoMsg
  /\ errorsLogged = [l \in Loops |-> 0]
  /\ ProcessReturned
  /\ NoDiff /\ NoPure
  /\ configUpdated \in BOOLEAN
  /\ changes = [c \in {"common", "private"} |-> 0]
  /\ errors = 0

\* applyWritableUpdates, lines 838-840: utils.MergeValues returns an error,
\* which is logged; the Writable is as it was, or holds what was merged before
\* the error
applyWritableUpdatesMergeFails(l) ==
  /\ pc[l] = "merge"
  /\ errors < MaxErrors
  /\ errors' = errors + 1
  /\ config' \in {config, MergeValues(config, rawMap[l])}
  /\ pc' = [pc EXCEPT ![l] = "dispatch"]
  /\ UNCHANGED <<prov, dirty, isFirstUpdate,
                 previousCommonWritable, raw, rawMap, prevVals, cancelled, wg,
                 stopCalls, configUpdated, loggerLevel, metricsInterval,
                 secretCallbacks, fired, callbackArg, changes>>
  /\ UNCHANGED <<startupVars, diffVars, pureVars, errorsLogged>>

NextApply ==
  \/ applyWritableUpdatesMerge("private")
  \/ applyWritableUpdatesMergeFails("private")
  \/ applyWritableUpdatesDispatch("private")
  \/ configUpdatedReceived("private")

SpecApply == InitApply /\ [][NextApply]_vars

\* ================= the provider sections loaded at start-up, step by step
\* the leaves of a service's custom configuration
CustomKeys == {<< <<"AppCustom">>, <<"A">> >>, << <<"AppCustom">>, <<"B">> >>}
LoadedSections == {"type", "private"}

\* what the provider holds of a section, and the base key of its client
SectionAt(sec) ==
  IF sec = "type" THEN sources.type
  ELSE IF sec = "private" THEN sources.private ELSE sources.custom
SectionBase(sec) ==
  IF sec = "type"
  THEN BuildBaseKey(<<configStem, CoreCommonConfigServiceKey, appServicesKey>>)
  ELSE BuildBaseKey(<<configStem, serviceKey>>)

\* configClient.GetConfiguration into the struct passed in, then
\* UpdateFromRaw: a leaf the section holds takes its value; a leaf it does
\* not hold keeps the struct's value or is left at the zero value, as the
\* client decodes
GetConfiguration(cfg, section, zeroed) ==
  [k \in DOMAIN cfg |->
     IF k \in DOMAIN section THEN section[k]
     ELSE IF zeroed THEN Zero ELSE cfg[k]]

\* loadCommonConfig has loaded the all-services section into the caller's
\* configuration (line 320); the section of the service's type is next for
\* an app or a device service, then the private section if the provider has
\* it, then the service's custom section
InitLoad ==
  /\ flags \in [useProvider : {TRUE}, overwriteConfig : {FALSE},
                devMode : {FALSE}, commonConfig : {FALSE},
                serviceType : ServiceTypes, hasServiceInfo : {TRUE}]
  /\ \E a \in SUBSET PKeys, t \in SUBSET PKeys, p \in SUBSET PKeys,
        c \in SUBSET CustomKeys :
       sources = [all |-> Section("all", a), type |-> Section("type", t),
                  private |-> Section("private", p), file |-> EmptyMap,
                  env |-> EmptyMap, commonFile |-> {"all", "type"},
                  custom |-> [k \in c |-> "c1"]]
  /\ serviceConfig = loadConfigFromProvider([k \in PKeys |-> Zero], sources.all)
  /\ providerHasConfig = HasConfiguration
  /\ step = IF TypedService(flags) THEN "copy/type"
            ELSE IF HasConfiguration THEN "copy/private" ELSE "custom"
  /\ calls = <<>>
  /\ configCopy = EmptyMap
  /\ overlayMap = EmptyMap
  /\ updatableConfig \in [CustomKeys -> {Zero, "c0"}]
  /\ InitLoops({})
  /\ configUpdated = FALSE
  /\ changes = [c \in {"common", "private"} |-> 0]
  /\ errors = 0
  /\ NoDiff /\ NoSecretsDiff /\ NoWait /\ NoFilter /\ NoAuth /\ NoProvider

\* what the steps of a load leave alone
loadFrame == <<flags, sources, providerHasConfig, calls, diffVars, secretVars,
               waitVars, filterVars, authVars, providerVars, watchVars>>

\* copyConfigurationStruct (lines 1008-1018), called at lines 165, 332, 353
copyConfigurationStruct(sec) ==
  /\ sec \in LoadedSections
  /\ step = "copy/" \o sec
  /\ \E failed \in BOOLEAN :
       IF failed
       THEN step' = "failed" /\ UNCHANGED configCopy
       ELSE step' = "load/" \o sec /\ configCopy' = serviceConfig
  /\ UNCHANGED <<serviceConfig, overlayMap, updatableConfig, loadFrame>>

\* variant: the section is loaded into the caller's configuration
loadSection_inPlace(sec) ==
  /\ sec \in LoadedSections
  /\ step = "load/" \o sec
  /\ \E failed \in BOOLEAN, zeroed \in BOOLEAN :
       LET loaded == GetConfiguration(serviceConfig, SectionAt(sec), zeroed)
       IN /\ serviceConfig' = loaded
          /\ configCopy' = loaded
          /\ step' = IF failed THEN "failed" ELSE "filter/" \o sec
  /\ UNCHANGED <<overlayMap, updatableConfig, loadFrame>>

\* cp.loadConfigFromProvider on the copy (lines 169, 340, 361): a failed
\* GetConfiguration leaves the copy alone, a failed UpdateFromRaw may not
loadSection(sec) ==
  /\ sec \in LoadedSections
  /\ step = "load/" \o sec
  /\ \E failed \in BOOLEAN, zeroed \in BOOLEAN :
       LET loaded == GetConfiguration(configCopy, SectionAt(sec), zeroed)
       IN IF failed
          THEN step' = "failed" /\ configCopy' \in {configCopy, loaded}
          ELSE step' = "filter/" \o sec /\ configCopy' = loaded
  /\ UNCHANGED <<serviceConfig, overlayMap, updatableConfig, loadFrame>>

\* GetConfigurationKeys("") and utils.RemoveUnusedSettings on the loaded copy
\* (lines 172-180, 344-347, 365-368, 377-380)
filterSection(sec) ==
  /\ sec \in LoadedSections
  /\ step = "filter/" \o sec
  /\ \E keysErr \in BOOLEAN, filterErr \in BOOLEAN :
       IF keysErr \/ filterErr
       THEN step' = "failed" /\ UNCHANGED overlayMap
       ELSE /\ step' = "merge/" \o sec
            /\ overlayMap' =
                 RemoveUnusedSettings(configCopy, SectionBase(sec),
                                      ProviderKeys(SectionAt(sec), SectionBase(sec)))
  /\ UNCHANGED <<serviceConfig, configCopy, updatableConfig, loadFrame>>

\* the step after the merge of a section
AfterSection(sec) ==
  IF sec = "type" /\ HasConfiguration THEN "copy/private"
  ELSE IF sec = "custom" THEN "done" ELSE "custom"

\* utils.MergeValues of the overlay into the caller's configuration (lines
\* 183, 383) or into the custom configuration (line 501); a failed merge is
\* returned, with the target as it was or as merged
mergeSection(sec) ==
  /\ step = "merge/" \o sec
  /\ \E failed \in BOOLEAN :
       /\ step' = IF failed THEN "failed" ELSE AfterSection(sec)
       /\ IF sec = "custom"
          THEN /\ updatableConfig' \in
                    (IF failed THEN {updatableConfig} ELSE {}) \cup
                    {MergeValues(updatableConfig, overlayMap)}
               /\ UNCHANGED serviceConfig
          ELSE /\ serviceConfig' \in
                    (IF failed THEN {serviceConfig} ELSE {}) \cup
                    {MergeValues(serviceConfig, overlayMap)}
               /\ UNCHANGED updatableConfig
  /\ UNCHANGED <<configCopy, overlayMap, loadFrame>>

\* LoadCustomConfigSection with a provider, lines 488-499: the section is
\* looked for; one that exists is fetched with GetConfiguration, and what
\* was fetched is the overlay of the merge of line 501. A section that does
\* not exist is seeded from the file, which is not followed here
LoadCustomConfigSection ==
  /\ step = "custom"
  /\ \E failed \in BOOLEAN, zeroed \in BOOLEAN :
       IF failed THEN step' = "failed" /\ UNCHANGED overlayMap
       ELSE IF DOMAIN sources.custom = {} THEN step' = "done" /\ UNCHANGED overlayMap
       ELSE /\ step' = "merge/custom"
            /\ overlayMap' = GetConfiguration(updatableConfig, sources.custom, zeroed)
  /\ UNCHANGED <<serviceConfig, configCopy, updatableConfig, loadFrame>>

NextLoad ==
  \/ \E sec \in LoadedSections : copyConfigurationStruct(sec)
  \/ \E sec \in LoadedSections : loadSection(sec)
  \/ \E sec \in LoadedSections : filterSection(sec)
  \/ \E sec \in LoadedSections \cup {"custom"} : mergeSection(sec)
  \/ LoadCustomConfigSection

SpecLoad == InitLoad /\ [][NextLoad]_vars

\* ============================================ NewSecretProvider, alone
\* the errors a round of the retry loop can end with, and the others
ErrSecretConfig == "getSecretConfig failed"
ErrSecretsClient == "NewSecretsClient failed"
ErrStoreConfig == "failed to override SecretStore information"
ErrLoadSecrets == "LoadServiceSecrets failed"
ErrUnableToCreate == "unable to create SecretClient"

\* NewSecretProvider is called with a start-up timer of some duration, of
\* which some part may have passed, by a service that runs with or without
\* security; the DI container holds no secret provider
InitSecretProvider ==
  /\ securityEnabled \in BOOLEAN
  /\ provider = "nil"
  /\ secretErr = Zero
  /\ dicSecretProvider = "none"
  /\ deadline \in 0..MaxDeadline
  /\ elapsed \in 0..deadline
  /\ waitPc = "none"
  /\ isAlive = FALSE
  /\ isConfigReady = FALSE
  /\ commonConfigReady = Zero
  /\ waitErr = Zero
  /\ step = "enter"
  /\ flags = [useProvider |-> TRUE, overwriteConfig |-> FALSE, devMode |-> FALSE,
              commonConfig |-> FALSE, serviceType |-> "core", hasServiceInfo |-> TRUE]
  /\ sources = NoSources
  /\ serviceConfig = [k \in PKeys |-> Zero]
  /\ providerHasConfig = FALSE
  /\ calls = <<>>
  /\ InitLoops({})
  /\ configUpdated = FALSE
  /\ changes = [c \in {"common", "private"} |-> 0]
  /\ errors = 0
  /\ NoDiff /\ NoSecretsDiff /\ NoFilter /\ NoAuth /\ NoLoad

\* what NewSecretProvider leaves alone
secretProviderFrame ==
  <<securityEnabled, deadline, waitPc, isAlive, isConfigReady,
    commonConfigReady, waitErr, flags, sources, serviceConfig,
    providerHasConfig, diffVars, secretVars, filterVars, authVars,
    loadVars, watchVars>>

\* lines 136-147: the provider is put in the DI container and returned
\* with a nil error
registerAndReturn(p) ==
  /\ dicSecretProvider' = p
  /\ provider' = p
  /\ secretErr' = Zero
  /\ step' = "returned"

\* return nil, err
returnError(e) ==
  /\ provider' = "nil"
  /\ secretErr' = e
  /\ step' = "returned"
  /\ UNCHANGED dicSecretProvider

\* NewSecretProvider, lines 60-70 and 132-133: without security the insecure
\* provider is built, registered and returned; with security the secret
\* store configuration is built, and a failure of that is returned
NewSecretProviderEnter ==
  /\ step = "enter"
  /\ IF ~securityEnabled
     THEN registerAndReturn("insecure")
     ELSE \E failed \in BOOLEAN :
            IF failed THEN returnError(ErrStoreConfig)
            ELSE /\ step' = "loop"
                 /\ UNCHANGED <<provider, secretErr, dicSecretProvider>>
  /\ UNCHANGED <<elapsed, calls, secretProviderFrame>>

\* NewSecretProvider, lines 72-130: the loop's test of the start-up timer
\* and one round. A failure of getSecretConfig or of NewSecretsClient is
\* retryable: it is kept in err and logged, and the loop sleeps. A client that was
\* created ends the loop, after the service's secrets were loaded if a
\* secrets file is set; a failure to load them is returned. After the loop
\* an err that is not nil is returned, otherwise provider is registered and
\* returned
NewSecretProviderRound ==
  /\ step = "loop"
  /\ IF ~HasNotElapsed
     THEN /\ IF secretErr # Zero
             THEN returnError(ErrUnableToCreate)
             ELSE registerAndReturn(provider)
          /\ UNCHANGED <<elapsed, calls>>
     ELSE \E outcome \in {ErrSecretConfig, ErrSecretsClient, ErrLoadSecrets,
                          "no secrets file", "secrets loaded"}, d \in {0, 1} :
            IF outcome \in {ErrSecretConfig, ErrSecretsClient}
            THEN /\ secretErr' = outcome
                 /\ calls' = Append(calls, "Retryable failure: " \o outcome)
                 /\ elapsed' = After(elapsed, d + 1)
                 /\ UNCHANGED <<provider, dicSecretProvider, step>>
            ELSE /\ elapsed' = After(elapsed, d)
                 /\ UNCHANGED calls
                 /\ IF outcome = ErrLoadSecrets
                    THEN returnError(ErrLoadSecrets)
                    ELSE registerAndReturn("secure")
  /\ UNCHANGED secretProviderFrame

NextSecretProvider == NewSecretProviderEnter \/ NewSecretProviderRound

SpecSecretProvider == InitSecretProvider /\ [][NextSecretProvider]_vars

\* ================================================================ claims
InitConfig == MergeValues(MergeValues(ZeroConfig, InitAllServices), InitPrivate)
ExactPrivateKey(c) == BuildBaseKey(<<BaseKeyOf("private"), writableKey, c>>)
\* the step in which common loop l leaves processCommonConfigChange's check
Decides(l) == pc[l] = "process" /\ pc'[l] # "process"
\* whichever key the diff reports, it is (is not) a key of the private section
ChangedKeyInPrivate(l) ==
  \A c \in commonChangedKeys(l) :
    c # NoKey /\ ExactPrivateKey(c) \in GetConfigurationKeys("private")
ChangedKeyNotInPrivate(l) ==
  \A c \in commonChangedKeys(l) :
    c # NoKey /\ ExactPrivateKey(c) \notin GetConfigurationKeys("private")
NoSideEffect ==
  /\ loggerLevel' = loggerLevel
  /\ metricsInterval' = metricsInterval
  /\ secretCallbacks' = secretCallbacks
  /\ fired' = fired
  /\ callbackArg' = callbackArg

\* C1: a private override always wins over a common update: the merge of a
\* common-section push never changes the live value of a Writable key that is
\* present among the private section's keys.
C1_PrivateOverrideWins ==
  [][\A l \in CommonLoops :
       (pc[l] = "merge" /\ pc'[l] = "dispatch")
         => \A k \in DOMAIN prov["private"] : config'[k] = config[k]]_vars

\* C2: a common push after the first whose changed key, as found by the diff,
\* is among the live private Writable keys is not applied: the configuration
\* is unchanged, no side effect fires, only the cached previous snapshot is
\* refreshed (with the raw snapshot of the push).
C2_PrivateKeySuppressed ==
  [][\A l \in CommonLoops :
       (Decides(l) /\ ChangedKeyInPrivate(l))
         => /\ config' = config
            /\ NoSideEffect
            /\ pc'[l] = "select"
            /\ previousCommonWritable'[l] = raw[l]
            /\ isFirstUpdate' = isFirstUpdate]_vars

\* the all-services section lost Telemetry/IntervalUnits, a key the private
\* section holds; the loop handled that push (its snapshot is the raw one,
\* with the zero value for the key) and the configuration is untouched
C2_Witness ==
  /\ pc["all"] = "select"
  /\ changes = [c \in {"common", "private"} |-> IF c = "common" THEN 1 ELSE 0]
  /\ errors = 0
  /\ KIntervalUnits \notin DOMAIN prov["all"]
  /\ previousCommonWritable["all"] = Snapshot("all")
  /\ config = InitConfig
  /\ fired = {}

\* C3: in every watch loop the first push after subscription is discarded
\* (configuration, side effects and change callback untouched), and only the
\* first: every later push goes on to be handled.
C3_FirstPushDiscarded ==
  [][\A l \in Loops :
       /\ (isFirstUpdate[l] /\ ~isFirstUpdate'[l])
            => (config' = config /\ NoSideEffect /\ pc'[l] = "select")
       /\ (~isFirstUpdate[l] /\ dirty[l] /\ ~dirty'[l])
            => /\ ~isFirstUpdate'[l]
               /\ l = "private" => pc'[l] = "merge"
               /\ l \in CommonLoops => pc'[l] = "process"
               /\ l = "custom" => callbackArg' = Snapshot(l)]_vars

\* all three kinds of loop dropped their first push, the custom loop handled
\* a later one, and the configuration is as it was before the watches
C3_Witness ==
  /\ \A l \in {"private", "all", "custom"} : ~isFirstUpdate[l]
  /\ callbackArg # NoMsg
  /\ config = InitConfig
  /\ fired = {}

\* C4: mutations of the shared configuration are serialized: no two watch
\* loops are inside applyWritableUpdates' merge-and-compare section (from the
\* reads of the previous values to the reads of the current ones) at once.
C4_MergesSerialized ==
  Cardinality({l \in Loops : pc[l] \in {"merge", "dispatch"}}) <= 1

\* C5: once the cancellation signal is raised every running watch loop
\* eventually stops watching and exits, and the wait group drains to zero.
C5_CancelDrainsWaitGroup ==
  cancelled ~> (wg = 0 /\ \A l \in Loops : pc[l] \in {"stopped", "none"})

\* C6: the dispatcher fires at most one category of side effect per update,
\* in the order log level, insecure secrets, telemetry interval, notification:
\* a changed log level excludes the three others, changed secrets exclude the
\* interval reset and the notification, a changed interval the notification.
C6_SingleSideEffect ==
  [][\A l \in WritableLoops :
       (pc[l] = "dispatch" /\ pc'[l] # "dispatch")
         => LET prev == prevVals[l]
                cur == Tracked(config)
            IN /\ Cardinality(fired') <= 1
               /\ cur.logLevel # prev.logLevel
                    => /\ fired' = {"loglevel"}
                       /\ loggerLevel' = cur.logLevel
                       /\ secretCallbacks' = NilSecrets
                       /\ metricsInterval' = metricsInterval
                       /\ pc'[l] # "send"
               /\ (cur.logLevel = prev.logLevel /\ cur.secrets # NilSecrets
                   /\ cur.secrets # prev.secrets)
                    => /\ fired' \subseteq {"secrets"}
                       /\ metricsInterval' = metricsInterval
                       /\ pc'[l] # "send"
               /\ "interval" \in fired' => pc'[l] # "send"]_vars

\* one update changed both the log level and the secrets: only the log level
\* was re-applied
C6_Witness ==
  /\ fired = {"loglevel"}
  /\ loggerLevel = "INFO"
  /\ config[KSecret] = "pw2"
  /\ secretCallbacks = NilSecrets
  /\ changes["private"] = 0

\* C9: a common push after the first whose changed key is not among the
\* private section's Writable keys is applied, for every changed key and every
\* private key set without that exact key (here: even when the live query of
\* the private keys succeeds).
C9_NonPrivateKeyApplied ==
  [][\A l \in CommonLoops :
       (Decides(l) /\ errors' = errors /\ ChangedKeyNotInPrivate(l))
         => pc'[l] = "merge"]_vars

UsedPrivateFile ==
  ~flags.useProvider \/ ~providerHasConfig \/ flags.overwriteConfig
PrivateKeys == IF UsedPrivateFile THEN DOMAIN sources.file ELSE DOMAIN sources.private
PrivateValue(k) ==
  IF ~UsedPrivateFile THEN sources.private[k]
  ELSE IF k \in DOMAIN sources.env THEN sources.env[k]
  ELSE sources.file[k]
CommonKeys ==
  IF flags.useProvider \/ flags.commonConfig
  THEN DOMAIN sources.all \cup
       (IF TypedService(flags) THEN DOMAIN sources.type ELSE {})
  ELSE {}

\* C8 as stated: once Process has resolved the configuration, every leaf held
\* by a common-layer source and by the private-layer source has the private
\* value.
C8_PrivateValueResolved ==
  step = "done" =>
    \A k \in PrivateKeys \cap CommonKeys : serviceConfig[k] = PrivateValue(k)

\* C8, amended: once Process has resolved the configuration, every leaf held
\* by a common-layer source and by the private-layer source has the private
\* value, except a Host that GetBootstrap hands out in dev mode, which is
\* "localhost".
C8_PrivateValueResolvedButDevHosts ==
  step = "done" =>
    \A k \in PrivateKeys \cap CommonKeys :
      serviceConfig[k] =
        IF flags.devMode /\ flags.hasServiceInfo /\ k = PHost THEN "localhost"
        ELSE PrivateValue(k)

\* an app service resolved from the provider, not in dev mode: the log level
\* is in all-services and in the private section, the host in all three
\* sections, and both have the private section's value
C8_Witness ==
  /\ step = "done"
  /\ flags.useProvider /\ ~flags.devMode /\ ~flags.overwriteConfig
  /\ flags.serviceType = "app"
  /\ providerHasConfig
  /\ DOMAIN sources.all = PKeys
  /\ DOMAIN sources.type = {PHost}
  /\ DOMAIN sources.private = PKeys
  /\ serviceConfig = Section("private", PKeys)

\* the leaves (scalars and sequences) of a map of Maps, by path
LeafPaths(m) ==
  {<<k>> : k \in {x \in DOMAIN m : m[x].kind # "map"}} \cup
  UNION {{<<k, kk>> : kk \in DOMAIN m[k].val} :
           k \in {x \in DOMAIN m : m[x].kind = "map"}}
LeafAt(m, p) == IF Len(p) = 1 THEN m[p[1]] ELSE m[p[1]].val[p[2]]
\* a and b are the same but for the leaf at path p
DifferOnlyAt(a, b, p) ==
  /\ DOMAIN a = DOMAIN b
  /\ \A k \in DOMAIN a : (a[k].kind = "map") = (b[k].kind = "map")
  /\ LeafPaths(a) = LeafPaths(b)
  /\ p \in LeafPaths(a)
  /\ LeafAt(a, p) # LeafAt(b, p)
  /\ \A q \in LeafPaths(a) \ {p} : LeafAt(a, q) = LeafAt(b, q)
\* b is a with the top-level key k added
AddedTopLevel(a, b, k) ==
  /\ k \in DOMAIN b \ DOMAIN a
  /\ a = [x \in DOMAIN b \ {k} |-> b[x]]

\* C7: the diff of two trees that differ in exactly one leaf (a scalar or a
\* sequence, top-level or nested) returns the path of that leaf; of identical
\* trees, no change; of a tree and the same tree with one more top-level key,
\* that key.
C7_DiffCorrect ==
  step \in {"done", "panic"} =>
    /\ previousMap = updatedMap => (step = "done" /\ changedKey = NoKey)
    /\ \A p \in LeafPaths(previousMap) :
         DifferOnlyAt(previousMap, updatedMap, p)
           => (step = "done" /\ changedKey = BuildBaseKey(p))
    /\ \A k \in DOMAIN previousMap \cup DOMAIN updatedMap :
         (AddedTopLevel(previousMap, updatedMap, k) \/ AddedTopLevel(updatedMap, previousMap, k))
           => (step = "done" /\ changedKey = k)

\* the case of a loop's select that receives a push
ReceivesPush(l) ==
  IF l = "private" THEN listenForPrivateChanges
  ELSE IF l = "custom" THEN ListenForCustomConfigChanges
  ELSE listenForCommonChanges(l)

\* C11: a transport error received on a watch loop's error stream is logged
\* and neither terminates the loop nor modifies the configuration: the step
\* that logs it leaves the loop at its select, the live configuration, the
\* pending push and every side effect as they were; and a loop that has logged
\* transport errors still receives the push its client holds for it.
C11_TransportErrorHarmless ==
  /\ [][\A l \in Loops : errorsLogged'[l] # errorsLogged[l] =>
         /\ errorsLogged'[l] = errorsLogged[l] + 1
         /\ pc[l] = "select" /\ pc' = pc
         /\ config' = config
         /\ NoSideEffect
         /\ dirty' = dirty /\ isFirstUpdate' = isFirstUpdate
         /\ stopCalls' = stopCalls /\ wg' = wg /\ prov' = prov]_vars
  /\ [](\A l \in Loops :
         errorsLogged[l] > 0 /\ pc[l] = "select" /\ updateReady(l)
           => ENABLED ReceivesPush(l))

\* a loop handles a push it received after it had logged a transport error
C11_Witness ==
  \E l \in WritableLoops : errorsLogged[l] > 0 /\ pc[l] = "merge"

\* a secret counts as held by a map when its SecretData is not nil, which is
\* how getSecretNamesChanged tells a removed or an added secret
Present(m, k) == k \in DOMAIN m /\ m[k].SecretData # NilData
\* the names of the secrets added, modified or removed between two maps, and
\* both names of a renamed secret
NamesToRotate(prev, cur) ==
  {prev[k].SecretName : k \in {x \in SecretKeys : Present(prev, x) /\ ~Present(cur, x)}}
  \cup {cur[k].SecretName : k \in {x \in SecretKeys : ~Present(prev, x) /\ Present(cur, x)}}
  \cup {cur[k].SecretName : k \in {x \in SecretKeys :
          Present(prev, x) /\ Present(cur, x) /\ prev[x] # cur[x]}}
  \cup {prev[k].SecretName : k \in {x \in SecretKeys :
          Present(prev, x) /\ Present(cur, x) /\ prev[x].SecretName # cur[x].SecretName}}

\* C12, as stated: whenever the insecure-secrets map differs before and after
\* the merge, the rotation callback is invoked for every secret name added,
\* modified or removed and for both names of a renamed secret.
C12_RotationForEveryName ==
  step = "done" /\ previousInsecureSecrets # currentInsecureSecrets =>
    NamesToRotate(previousInsecureSecrets, currentInsecureSecrets)
      \subseteq DOMAIN secretCallbacks

\* C12, amended: when the log level did not change, the map after the merge
\* is not nil and differs from the one before, and a secret provider is
\* registered (the secrets case fired), the rotation callback is invoked for
\* every secret name added, modified or removed and for both names of a
\* renamed secret, a secret being held when its data is not nil.
C12_RotationWhenSecretsCaseFires ==
  (/\ step = "done"
   /\ previousLogLevel = currentLogLevel
   /\ currentInsecureSecrets # NilSecrets
   /\ previousInsecureSecrets # currentInsecureSecrets
   /\ "secrets" \in fired) =>
    NamesToRotate(previousInsecureSecrets, currentInsecureSecrets)
      \subseteq DOMAIN secretCallbacks

\* a secret was renamed and another removed; both names of the first and the
\* name of the second were called back
C12_Witness ==
  /\ step = "done" /\ "secrets" \in fired
  /\ Present(previousInsecureSecrets, "DB") /\ Present(currentInsecureSecrets, "DB")
  /\ previousInsecureSecrets["DB"].SecretName = "redisdb"
  /\ currentInsecureSecrets["DB"].SecretName = "mqtt"
  /\ Present(previousInsecureSecrets, "MQ") /\ ~Present(currentInsecureSecrets, "MQ")
  /\ DOMAIN secretCallbacks = {"redisdb", "mqtt"}

\* the dispatcher of loop l takes its step and the switch selects case c
Dispatches(l, c) ==
  /\ pc[l] = "dispatch" /\ pc'[l] # "dispatch"
  /\ switchCase(prevVals[l], Tracked(config)) = c

\* C13, as stated: when the telemetry interval string changes to a value
\* that parses as a zero duration the reporting interval is reset to the
\* maximum duration, never to zero, and for any other valid duration to
\* exactly the parsed value.
C13_IntervalReset ==
  [][\A l \in WritableLoops :
       LET d == ParseDuration(GetTelemetryInterval(config)) IN
       Dispatches(l, "interval") /\ d # DurationErr =>
         /\ metricsInterval' = IF d = 0 THEN mathMaxInt64 ELSE d
         /\ metricsInterval' # 0]_vars

\* C13, amended: the same, provided a metrics manager is registered (the
\* reset happened); without one the interval is left as it was.
C13_IntervalResetByManager ==
  [][\A l \in WritableLoops :
       LET d == ParseDuration(GetTelemetryInterval(config)) IN
       Dispatches(l, "interval") /\ d # DurationErr =>
         IF "interval" \in fired'
         THEN /\ metricsInterval' = IF d = 0 THEN mathMaxInt64 ELSE d
              /\ metricsInterval' # 0
         ELSE metricsInterval' = metricsInterval]_vars

\* the interval went to "0s" and reporting is disabled; on another run it
\* went to "10s" and the manager was given that duration
C13_Witness ==
  /\ "interval" \in fired
  /\ GetTelemetryInterval(config) = "0s"
  /\ metricsInterval = mathMaxInt64
C13_WitnessParsed ==
  /\ "interval" \in fired
  /\ GetTelemetryInterval(config) = "10s"
  /\ metricsInterval = 1

\* C14: when the telemetry interval string changes to a value that is not a
\* valid duration, the error is logged, the reporting interval is not reset,
\* the fields already merged stay applied, and the watch loop goes back to
\* its select without stopping.
C14_InvalidIntervalIgnored ==
  [][\A l \in WritableLoops :
       (/\ Dispatches(l, "interval")
        /\ ParseDuration(GetTelemetryInterval(config)) = DurationErr) =>
         /\ fired' = {"invalid interval logged"}
         /\ metricsInterval' = metricsInterval
         /\ metricsInterval' # DurationErr
         /\ config' = config
         /\ pc'[l] = "select"
         /\ wg' = wg /\ stopCalls' = stopCalls /\ cancelled' = cancelled]_vars

\* the interval went from "30s" to "bad": the live configuration holds "bad",
\* the manager still reports every 30 seconds, the loop is at its select
C14_Witness ==
  /\ fired = {"invalid interval logged"}
  /\ GetTelemetryInterval(config) = "bad"
  /\ metricsInterval = ParseDuration("30s")
  /\ \E l \in WritableLoops : pc[l] = "select" /\ ~isFirstUpdate[l] /\ stopCalls[l] = 0

\* C15: an applied update that changes none of the log level, the secrets and
\* the telemetry interval puts exactly one signal on the configUpdated
\* stream when the service supplied one: the loop sends once and goes back
\* to its select when the signal is taken; without a stream, and for an
\* update in which one of the three fields changed, no signal is sent.
C15_NotifyOnlyInDefaultCase ==
  [][\A l \in WritableLoops :
       /\ (pc[l] = "dispatch" /\ pc'[l] # "dispatch") =>
            LET prev == prevVals[l]
                cur == Tracked(config)
                unchanged == /\ cur.logLevel = prev.logLevel
                             /\ cur.secrets = prev.secrets
                             /\ cur.interval = prev.interval
            IN IF unchanged /\ configUpdated
               THEN pc'[l] = "send" /\ fired' = {"notify"}
               ELSE pc'[l] = "select" /\ "notify" \notin fired'
       /\ (pc[l] = "send" /\ pc'[l] # "send") =>
            pc'[l] = "select" /\ fired' = fired
       /\ (pc[l] # "dispatch" /\ pc'[l] = "send") => pc[l] = "send"]_vars

\* the signal of an update that changed no tracked field was sent and taken,
\* and the loop is back at its select
C15_Witness ==
  /\ configUpdated
  /\ fired = {"notify"}
  /\ \A l \in Loops : pc[l] \in {"select", "none"}
  /\ \E l \in WritableLoops : ~isFirstUpdate[l] /\ ~dirty[l]

\* C16: a start-up step's failure aborts resolution; in particular, whenever
\* Process returns an error, a failure to apply the log level included, no
\* watch loop has been started: no listen function was called, no loop is at
\* its select and the wait group is empty.
C16_ErrorStartsNoLoop ==
  step = "failed" =>
    /\ \A l \in Loops : pc[l] = "none"
    /\ wg = 0
    /\ \A i \in DOMAIN calls :
         calls[i] \notin {"listen/private", "listen/all", "listen/app", "listen/device"}

\* how often Process made a call
Count(c) == Cardinality({i \in DOMAIN calls : calls[i] = c})
\* Process is past the private configuration
PrivateLoaded == step = "private" \/ Called("SetLogLevel")

\* C18: in provider-backed resolution the private layer comes from exactly
\* one source: from the provider (fetched and filtered; the private file is
\* not read, nothing is pushed) if and only if the provider has private
\* configuration and the overwrite flag is not set; otherwise from the private
\* file with the environment overrides applied, and that map is pushed to the
\* provider exactly once with the overwrite flag's value.
C18_PrivateFromOneSource ==
  (flags.useProvider /\ PrivateLoaded) =>
    LET fromProvider == Called("GetConfiguration/private")
        fromFile == Called("loadConfigYamlFromFile/private")
        pushes == Count("PutConfigurationMap/true") + Count("PutConfigurationMap/false")
        configMap == OverrideConfigMapValues(sources.file)
    IN /\ fromProvider # fromFile
       /\ fromProvider <=> (providerHasConfig /\ ~flags.overwriteConfig)
       /\ fromProvider =>
            /\ Count("GetConfiguration/private") = 1
            /\ Count("GetConfigurationKeys/private") = 1
            /\ pushes = 0
       /\ fromFile =>
            /\ Count("loadConfigYamlFromFile/private") = 1
            /\ pushes = 1
            /\ Count(IF flags.overwriteConfig THEN "PutConfigurationMap/true"
                     ELSE "PutConfigurationMap/false") = 1
            /\ \A k \in DOMAIN configMap : sources.private[k] = configMap[k]
            /\ step = "private" =>
                 \A k \in DOMAIN configMap : serviceConfig[k] = configMap[k]
       /\ (fromProvider /\ step = "private") =>
            \A k \in DOMAIN sources.private : serviceConfig[k] = sources.private[k]

\* the provider holds private configuration and the overwrite flag is set:
\* the private file was read and pushed once, overwriting
C18_Witness ==
  /\ step = "done"
  /\ flags.useProvider /\ flags.overwriteConfig /\ providerHasConfig
  /\ DOMAIN sources.file = PKeys
  /\ Count("PutConfigurationMap/true") = 1
  /\ ~Called("GetConfiguration/private")

\* C19: a provider-backed Process starts exactly one watch loop for the
\* private Writable section and exactly one for all-services, plus exactly
\* one loop for the section of the service's type, app-services or
\* device-services and never both, if and only if the service is an app or a
\* device service; a file-backed Process starts no watch loop and makes no
\* provider call.
C19_WatchRegistration ==
  /\ ~Called("SetLogLevel") =>
       /\ \A l \in Loops : pc[l] = "none"
       /\ Count("listen/private") + Count("listen/all")
            + Count("listen/app") + Count("listen/device") = 0
  /\ (Called("SetLogLevel") /\ flags.useProvider) =>
       /\ Count("listen/private") = 1
       /\ Count("listen/all") = 1
       /\ Count("listen/app") = (IF flags.serviceType = "app" THEN 1 ELSE 0)
       /\ Count("listen/device") = (IF flags.serviceType = "device" THEN 1 ELSE 0)
       /\ pc["private"] = "select" /\ pc["all"] = "select"
       /\ pc["type"] = (IF TypedService(flags) THEN "select" ELSE "none")
       /\ wg = (IF TypedService(flags) THEN 3 ELSE 2)
  /\ ~flags.useProvider =>
       /\ \A l \in Loops : pc[l] = "none"
       /\ wg = 0
       /\ \A i \in DOMAIN calls :
            calls[i] \in {"loadConfigYamlFromFile/common",
                          "error/could not find section",
                          "loadConfigYamlFromFile/private", "SetLogLevel"}

\* a device service resolved from the provider: three loops, the third one
\* on device-services
C19_Witness ==
  /\ step = "done"
  /\ flags.useProvider /\ flags.serviceType = "device"
  /\ Count("listen/device") = 1 /\ Count("listen/app") = 0
  /\ pc["type"] = "select" /\ wg = 3

\* Process is past the common file of a file-backed resolution
CommonFileLoaded ==
  ~flags.useProvider /\ flags.commonConfig /\ step # "start"
\* the configuration the all-services section of the common file gives,
\* merged under the section given (none for EmptyMap), overrides applied
FromCommonFile(typeSection) ==
  OverrideConfigMapValues(
    [k \in PKeys |-> IF k \in DOMAIN typeSection THEN typeSection[k]
                     ELSE IF k \in DOMAIN sources.all THEN sources.all[k]
                     ELSE Zero])

\* C20, as stated: a file-backed common configuration needs the all-services
\* section only: the section of the service's type is optional for every
\* service type, and a missing section is an error only when it is
\* all-services.
C20_OnlyAllServicesRequired ==
  CommonFileLoaded =>
    /\ Called("error/could not find section") => "all" \notin sources.commonFile
    /\ "all" \notin sources.commonFile => step = "failed"

\* C20, amended: a file-backed common configuration needs the all-services
\* section and, for an app or a device service, the section of the service's
\* type: a file without a section it needs is rejected with an error and
\* nothing is resolved; for any other service type the type sections are not
\* looked at and resolution proceeds with all-services alone, for an app or
\* a device service with the type section merged over all-services.
C20_TypeSectionRequiredForTypedService ==
  CommonFileLoaded =>
    LET missing == \/ "all" \notin sources.commonFile
                   \/ /\ flags.serviceType \in {"app", "device"}
                      /\ "type" \notin sources.commonFile
    IN /\ Called("error/could not find section") => missing
       /\ missing => step = "failed" /\ serviceConfig = [k \in PKeys |-> Zero]
       /\ step = "common" =>
            serviceConfig =
              FromCommonFile(IF flags.serviceType \in {"app", "device"}
                             THEN sources.type ELSE EmptyMap)

\* a core service's common file has all-services and no section of a type:
\* it was accepted and the configuration is the one of all-services
C20_Witness ==
  /\ CommonFileLoaded /\ step = "common"
  /\ flags.serviceType = "core"
  /\ sources.commonFile = {"all"}
  /\ DOMAIN sources.all = PKeys /\ DOMAIN sources.env = {}
  /\ serviceConfig = Section("all", PKeys)

\* C17: the start-up wait returns success only after it has observed the
\* provider alive and then read the readiness marker as boolean true; a
\* missing marker and a marker that is no boolean count as not ready and are
\* polled again; once the start-up deadline has elapsed the wait takes no
\* further round and returns, with an error if liveness or the marker was not
\* observed; and it always returns.
C17_WaitForCommonConfig ==
  /\ [](waitPc = "returned" /\ waitErr = Zero =>
          /\ isAlive /\ isConfigReady
          /\ commonConfigReady \in {"true", "1"})
  /\ [](isConfigReady => isAlive)
  /\ [](waitPc = "returned" /\ ~(isAlive /\ isConfigReady) => waitErr # Zero)
  /\ [][(waitPc = "ready" /\ elapsed < deadline /\ waitVars' # waitVars
         /\ commonConfigReady' \in {MarkerMissing, "false", "yes"}) =>
          /\ ~isConfigReady'
          /\ waitPc' = "ready" \/ (cancelled /\ waitErr' = ErrAbortedReady)]_vars
  /\ [][(elapsed >= deadline /\ waitPc \in {"alive", "ready"}
         /\ waitPc' # waitPc) =>
          waitPc' = "returned" /\ waitErr' # Zero]_vars
  /\ [][elapsed >= deadline => elapsed' = elapsed]_vars
  /\ <>(waitPc = "returned")

\* the provider was not alive at first, then the marker was missing, then it
\* was true: the wait returned without an error before the deadline
C17_Witness ==
  /\ waitPc = "returned" /\ waitErr = Zero
  /\ isAlive /\ isConfigReady
  /\ commonConfigReady = "true"
  /\ elapsed = 2 /\ deadline = MaxDeadline

\* the fully-qualified path of a leaf
FullPath(p) == basePath \o Slash \o BuildBaseKey(p)
\* the scenario: {A:1, B:{C:2, D:3}} under "svc", known svc/A and svc/B/C
FilterScenario ==
  /\ candidate = [p \in FilterPaths |->
                   IF p = << <<"A">> >> THEN "1"
                   ELSE IF p = << <<"B">>, <<"C">> >> THEN "2" ELSE "3"]
  /\ basePath = <<"svc">>
  /\ knownKeys = {<<"svc">> \o Slash \o <<"A">>,
                  <<"svc">> \o Slash \o <<"B">> \o Slash \o <<"C">>}

\* C21: the filter's output omits every leaf whose fully-qualified path
\* (base path + relative path) is absent from the known keys and keeps every
\* leaf whose path is present, with its value; {A:1, B:{C:2, D:3}} under "svc"
\* with the known keys svc/A and svc/B/C yields {A:1, B:{C:2}}.
C21_FilterCorrectness ==
  step = "filtered" =>
    /\ \A p \in DOMAIN candidate :
         IF FullPath(p) \in knownKeys
         THEN p \in DOMAIN filtered /\ filtered[p] = candidate[p]
         ELSE p \notin DOMAIN filtered
    /\ DOMAIN filtered \subseteq DOMAIN candidate
    /\ FilterScenario =>
         ToTree(filtered) =
           (<<"A">> :> Scalar("1")) @@
           (<<"B">> :> Mapping(<<"C">> :> Scalar("2")))

\* the scenario was filtered: B.D is gone, A and B.C are kept
C21_Witness ==
  /\ step = "filtered"
  /\ FilterScenario
  /\ DOMAIN filtered = {<< <<"A">> >>, << <<"B">>, <<"C">> >>}

\* the header is the scheme Bearer in any case, one space, and a token that
\* is not empty and holds no space
WellFormedBearer ==
  /\ Len(authHeader) >= 3
  /\ authHeader[1] \in {"Bearer", "BEARER"}
  /\ authHeader[2] = Space
  /\ \A i \in 3..Len(authHeader) : authHeader[i] # Space
\* the header has two or more space-separated fields, the first of them Bearer
BearerFields ==
  /\ Len(Split(authHeader)) >= 2
  /\ Split(authHeader)[1] \in {<<"Bearer">>, <<"BEARER">>}

\* C22 as stated: the wrapped handler is invoked only for a header of the
\* form "Bearer <token>" whose token IsJWTValid found valid; a validation error
\* yields 500, an invalid token or a missing or malformed header yields 401,
\* and in none of those cases is the wrapped handler invoked.
C22_HandlerOnlyForBearerToken ==
  step = "served" =>
    /\ innerCalls > 0 =>
         /\ WellFormedBearer
         /\ jwtAnswer = "valid"
         /\ jwtChecked = <<SubSeq(authHeader, 3, Len(authHeader))>>
    /\ jwtAnswer = "error" => httpStatus = StatusInternalServerError /\ innerCalls = 0
    /\ (jwtAnswer = "invalid" \/ ~WellFormedBearer) =>
         httpStatus = StatusUnauthorized /\ innerCalls = 0

\* C22, amended: the token is the second space-separated field of the
\* header, empty or not, and what follows it is ignored. The wrapped handler
\* is invoked, once, exactly when the header has two or more fields, the first
\* is Bearer in any case, and IsJWTValid of the second returned true without
\* error; an error yields 500 and an invalid token 401; a header with fewer
\* fields or another scheme yields 401 without a call of IsJWTValid; in none
\* of those cases is the wrapped handler invoked.
C22_HandlerOnlyForValidSecondField ==
  step = "served" =>
    /\ BearerFields =>
         /\ jwtChecked = <<Split(authHeader)[2]>>
         /\ jwtAnswer \in {"valid", "invalid", "error"}
    /\ ~BearerFields =>
         /\ jwtChecked = <<>>
         /\ jwtAnswer = "none"
         /\ httpStatus = StatusUnauthorized
    /\ innerCalls = IF jwtAnswer = "valid" THEN 1 ELSE 0
    /\ jwtAnswer = "valid" => httpStatus = 0
    /\ jwtAnswer = "error" => httpStatus = StatusInternalServerError
    /\ jwtAnswer = "invalid" => httpStatus = StatusUnauthorized

\* "BEARER x " with a valid token x: the handler was invoked although a
\* field follows the token
C22_Witness ==
  /\ step = "served"
  /\ authHeader = <<"BEARER", Space, "x", Space>>
  /\ jwtChecked = << <<"x">> >>
  /\ innerCalls = 1

\* loop l leaves its for loop in this step
Exits(l) == pc[l] # "stopped" /\ pc'[l] = "stopped"

\* C24 as stated: cancellation is the only termination path of a watch
\* loop: a loop that has exited did so after the cancellation signal was
\* raised and after it called StopWatching exactly once.
C24_CancellationOnlyExit ==
  \A l \in Loops : pc[l] = "stopped" => cancelled /\ stopCalls[l] = 1

\* C24, amended: a watch loop exits from its select only, either on the
\* cancellation signal, after calling StopWatching exactly once, or, in a
\* Writable loop, when the provider client has closed the update stream, and
\* then without calling StopWatching; either way the wait-group entry is
\* marked done, and no push or transport error is consumed by the exit.
C24_ExitByCancellationOrClosedStream ==
  [][\A l \in Loops :
       Exits(l) =>
         /\ pc[l] = "select"
         /\ wg' = wg - 1
         /\ dirty' = dirty /\ errorsLogged' = errorsLogged /\ config' = config
         /\ \/ /\ cancelled
               /\ stopCalls[l] = 0
               /\ stopCalls' = [stopCalls EXCEPT ![l] = 1]
            \/ /\ l \in WritableLoops
               /\ stopCalls' = stopCalls]_vars

\* the all-services loop returned on a closed update stream: no
\* cancellation, no StopWatching, the private loop still at its select
C24_Witness ==
  /\ pc["all"] = "stopped"
  /\ stopCalls["all"] = 0
  /\ ~cancelled
  /\ pc["private"] = "select"
  /\ wg = 1

\* C25: the diff is deterministic for a given pair of trees: whatever pair
\* isPrivateOverride is given, pairs that differ in more than one leaf
\* included, the key an evaluation returned is the key every evaluation of
\* that pair returns.
C25_DiffDeterministic ==
  step = "done" =>
    \A key \in changedKeys(previousMap, updatedMap) : key = changedKey

\* the paths of previous that updated does not have
RemovedPaths ==
  {k \in DOMAIN previousMap : k \notin DOMAIN updatedMap} \cup
  UNION {{buildNewKey(k, kk) :
            kk \in {x \in DOMAIN previousMap[k].val : x \notin DOMAIN updatedMap[k].val}} :
           k \in {x \in DOMAIN previousMap \cap DOMAIN updatedMap :
                     previousMap[x].kind = "map" /\ updatedMap[x].kind = "map"}}
\* updated is previous with keys removed and nothing else changed
OnlyRemoved ==
  /\ RemovedPaths # {}
  /\ DOMAIN updatedMap \subseteq DOMAIN previousMap
  /\ \A k \in DOMAIN updatedMap :
       \/ updatedMap[k] = previousMap[k]
       \/ /\ previousMap[k].kind = "map" /\ updatedMap[k].kind = "map"
          /\ DOMAIN updatedMap[k].val \subseteq DOMAIN previousMap[k].val
          /\ \A kk \in DOMAIN updatedMap[k].val :
               updatedMap[k].val[kk] = previousMap[k].val[kk]

\* C26: when the walk of updated against previous finds no difference, the
\* same walk is run with the arguments swapped: what it returns is what the
\* diff returns, a key removed in the updated tree (and nothing else changed)
\* is reported as the changed path, and "no change" is reported only when
\* both directions find nothing.
C26_SwappedWalkFindsRemoved ==
  /\ [][step = "swapped" =>
          /\ changedKey = NoKey
          /\ NoKey \in walkMapForChange(previousMap, updatedMap, NoKey)
          /\ changedKey' \in walkMapForChange(updatedMap, previousMap, NoKey)
          /\ OnlyRemoved => (step' = "done" /\ changedKey' \in RemovedPaths)
          /\ changedKey' = NoKey =>
               NoKey \in walkMapForChange(updatedMap, previousMap, NoKey)]_vars
  /\ [](step = "walk" => changedKey = NoKey)
  /\ []((step = "done" /\ changedKey = NoKey) =>
         /\ NoKey \in walkMapForChange(previousMap, updatedMap, NoKey)
         /\ NoKey \in walkMapForChange(updatedMap, previousMap, NoKey))

\* previous {a: 1, b: {c: 2}}, updated {a: 1, b: {}}: the walk found
\* nothing, the swapped walk reported b/c
C26_Witness ==
  /\ step = "done"
  /\ previousMap = (<<"a">> :> Scalar("1")) @@ (<<"b">> :> Mapping(<<"c">> :> Scalar("2")))
  /\ updatedMap = (<<"a">> :> Scalar("1")) @@ (<<"b">> :> Mapping(EmptyMap))
  /\ changedKey = <<"b">> \o Slash \o <<"c">>

\* the step of provider-backed resolution a call of Process belongs to
StageOf(c) ==
  IF c = "createProvider/all" THEN 0
  ELSE IF c = "waitForCommonConfig" THEN 1
  ELSE IF c = "GetConfiguration/all" THEN 2
  ELSE IF c \in {"createProvider/app", "GetConfiguration/app", "GetConfigurationKeys/app",
                 "createProvider/device", "GetConfiguration/device",
                 "GetConfigurationKeys/device"} THEN 3
  ELSE IF c \in {"createProvider/private", "HasConfiguration", "GetConfiguration/private",
                 "GetConfigurationKeys/private", "loadConfigYamlFromFile/private",
                 "PutConfigurationMap/true", "PutConfigurationMap/false"} THEN 4
  ELSE IF c \in {"listen/private", "listen/all", "listen/app", "listen/device"} THEN 5
  ELSE IF c = "SetLogLevel" THEN 6
  ELSE 7
\* Process made a call of the given step
Reached(n) == \E i \in DOMAIN calls : StageOf(calls[i]) = n

\* C30: in provider-backed resolution the steps occur strictly in the order
\* readiness marker observed, all-services load, service-type filter-and-merge
\* (app and device services), private load, watch registration, log-level
\* application: no call of a step comes after a call of a later step, no step
\* is entered before the ones it follows, no watch loop is started before the
\* private layer has been merged, and the log level that is set is the one of
\* the configuration resolved from all the layers.
C30_ResolutionOrder ==
  flags.useProvider =>
    /\ \A i, j \in DOMAIN calls : i < j => StageOf(calls[i]) <= StageOf(calls[j])
    /\ \A i \in DOMAIN calls : StageOf(calls[i]) < 7
    /\ Reached(2) => Reached(1)
    /\ Reached(3) => Reached(2) /\ TypedService(flags)
    /\ Reached(4) => Reached(2) /\ (TypedService(flags) => Reached(3))
    /\ Reached(5) =>
         /\ Reached(4)
         /\ Called("GetConfiguration/private") \/ Called("loadConfigYamlFromFile/private")
         /\ Called("GetConfiguration/private") =>
              \A k \in DOMAIN sources.private \ {PHost} :
                serviceConfig[k] = sources.private[k]
         /\ Called("loadConfigYamlFromFile/private") =>
              \A k \in DOMAIN sources.file \ {PHost} :
                serviceConfig[k] = OverrideConfigMapValues(sources.file)[k]
    /\ Reached(6) => Called("listen/private") /\ Called("listen/all")
    /\ step = "done" =>
         /\ Reached(6)
         /\ loggerLevel = serviceConfig[PLogLevel]
         /\ loggerLevel =
              IF Called("GetConfiguration/private") /\ PLogLevel \in DOMAIN sources.private
              THEN sources.private[PLogLevel]
              ELSE IF Called("loadConfigYamlFromFile/private")
                      /\ PLogLevel \in DOMAIN sources.file
              THEN OverrideConfigMapValues(sources.file)[PLogLevel]
              ELSE IF TypedService(flags) /\ PLogLevel \in DOMAIN sources.type
              THEN sources.type[PLogLevel]
              ELSE IF PLogLevel \in DOMAIN sources.all
              THEN sources.all[PLogLevel]
              ELSE Zero
    /\ (pc["private"] # "none" \/ wg > 0) => Reached(4)

\* an app service resolved from the provider: every step was taken, the log
\* level comes from the private section
C30_Witness ==
  /\ step = "done"
  /\ flags.useProvider /\ flags.serviceType = "app"
  /\ \A n \in 1..6 : Reached(n)
  /\ Called("GetConfiguration/private")
  /\ PLogLevel \in DOMAIN sources.private
  /\ loggerLevel = sources.private[PLogLevel]
  /\ wg = 3

\* loop l is handling a push: between the receive and the return to select
Handling(l) == pc[l] \in {"process", "merge", "dispatch", "send"}
\* loop l takes the push its client holds for it
TakesPush(l) == dirty[l] /\ ~dirty'[l]

FailedPush(l) ==
  /\ pc[l] = "select"
  /\ TakesPush(l)
  /\ errors' # errors

\* C29: if fetching the watched section's known keys or filtering the
\* pushed snapshot fails while a watch loop handles a push, the loop goes on
\* to await the next event without applying that push: it is back at its
\* select, the configuration as it was.
C29_FailedPushDropped ==
  [][\A l \in WritableLoops :
       FailedPush(l) => (pc'[l] = "select" /\ config' = config)]_vars

\* C27: if either snapshot cannot be converted to a tree, the diff finds
\* no changed key, or the live query of the private section's keys fails, the
\* common push is treated as a private override: it does not reach the merge,
\* the configuration is not modified, no side effect fires, and the loop is
\* back at its select with its cached previous snapshot refreshed.
C27_ConservativeDefault ==
  [][\A l \in CommonLoops :
       (Decides(l) /\ (errors' # errors \/ commonChangedKeys(l) = {NoKey})) =>
         /\ pc'[l] = "select"
         /\ rawMap'[l] = NoMsg
         /\ previousCommonWritable'[l] = raw[l]
         /\ config' = config
         /\ loggerLevel' = loggerLevel
         /\ secretCallbacks' = secretCallbacks
         /\ metricsInterval' = metricsInterval
         /\ fired' = fired]_vars

\* the all-services secret, which is not a private key, was changed and
\* pushed; a provider call failed, and the push was dropped: the live secret
\* is the old one, the cached snapshot the new one
C27_Witness ==
  /\ pc["all"] = "select"
  /\ ~isFirstUpdate["all"] /\ ~dirty["all"]
  /\ changes["common"] = 1
  /\ errors = 1
  /\ \A l \in Loops : errorsLogged[l] = 0
  /\ KSecret \in DOMAIN prov["all"] /\ prov["all"][KSecret] = "pw2"
  /\ config[KSecret] = "pw1"
  /\ previousCommonWritable["all"] = Snapshot("all")

\* C28: dispatcher side effects (log-level re-apply, secret rotation
\* callbacks, telemetry interval reset, generic notification) occur only after
\* a successful merge: when the merge of a push has failed, the dispatcher
\* fires none of them for that push.
C28_NoSideEffectAfterFailedMerge ==
  [][\A l \in WritableLoops :
       (pc[l] = "dispatch" /\ errors > 0 /\ pc'[l] # "dispatch") =>
         /\ fired' = {}
         /\ pc'[l] = "select"
         /\ loggerLevel' = loggerLevel
         /\ secretCallbacks' = secretCallbacks
         /\ metricsInterval' = metricsInterval]_vars

\* C31: once the cancellation signal is raised, the wait for the provider's
\* liveness and the wait for the readiness marker each end at their next
\* round: a round taken before the deadline either observes what the loop
\* waits for or returns the loop's "aborted" error, on every branch, a failed
\* read of the marker included.
C31_CancellationStopsPolling ==
  [][(cancelled /\ elapsed < deadline /\ waitVars' # waitVars) =>
       /\ waitPc = "alive" =>
            isAlive' \/ (waitPc' = "returned" /\ waitErr' = ErrAbortedAlive)
       /\ waitPc = "ready" =>
            isConfigReady' \/ (waitPc' = "returned" /\ waitErr' = ErrAbortedReady)]_vars

\* the leaves of a section that the caller's configuration declares
StoredLeaves(sec) == DOMAIN SectionAt(sec) \cap DOMAIN serviceConfig

\* C32: the section of the service's type and the private section are loaded
\* into a copy: copying, loading, querying the keys and filtering leave the
\* caller's configuration as it was, whether they succeed or fail; only the
\* merge of the filtered map changes it, a merged leaf takes the value the
\* section stores, and a leaf the section does not store keeps its value.
C32_LoadOnDeepCopy ==
  [][\A sec \in LoadedSections :
       /\ step \in {"copy/" \o sec, "load/" \o sec, "filter/" \o sec}
            => serviceConfig' = serviceConfig
       /\ step = "merge/" \o sec =>
            /\ \A k \in DOMAIN serviceConfig \ StoredLeaves(sec) :
                 serviceConfig'[k] = serviceConfig[k]
            /\ \/ serviceConfig' = serviceConfig /\ step' = "failed"
               \/ \A k \in StoredLeaves(sec) : serviceConfig'[k] = SectionAt(sec)[k]]_vars

\* the private section holds the log level alone; the client left the host
\* of the copy at its zero value, the filter removed it, and after the merge
\* the caller's configuration has the private log level and the host
\* resolved from the all-services section
C32_Witness ==
  /\ step = "custom"
  /\ DOMAIN sources.all = PKeys
  /\ DOMAIN sources.private = {PLogLevel}
  /\ configCopy[PHost] = Zero
  /\ DOMAIN overlayMap = {PLogLevel}
  /\ serviceConfig[PLogLevel] = SourceVal("private", PLogLevel)
  /\ serviceConfig[PHost] = SourceVal("all", PHost)

\* C33: every overlay that comes from the provider is the output of the
\* filter when it is merged: at each merge of a provider section at start-up
\* (type, private, custom) the overlay holds exactly the leaves the section
\* stores, with the values stored.
C33_OverlayFilteredBeforeMerge ==
  \A sec \in LoadedSections \cup {"custom"} :
    step = "merge/" \o sec =>
      /\ DOMAIN overlayMap \subseteq DOMAIN SectionAt(sec)
      /\ \A k \in DOMAIN overlayMap : overlayMap[k] = SectionAt(sec)[k]

\* C34: in a common loop the diff compares two trees of the same form: once
\* the loop has handled a push after its first, with no provider call having
\* failed, the cached previous snapshot is the filtered tree of that push,
\* which holds only the keys the provider stores.
C34_PreviousIsFilteredTree ==
  \A l \in CommonLoops :
    (pc[l] = "select" /\ ~isFirstUpdate[l] /\ ~dirty[l] /\ errors = 0)
      => previousCommonWritable[l] =
           [k \in DOMAIN prov[l] |-> prov[l][k]]

\* C35: a watch loop never blocks inside applyWritableUpdates: in every state
\* in which a loop is between the merge and its return to the select, the
\* loop's goroutine can take its next step by itself, whether or not anyone
\* reads the configUpdated stream.
C35_DispatcherNeverBlocks ==
  \A l \in WritableLoops :
    pc[l] \in {"merge", "dispatch", "send"} => ENABLED LoopStep(l)

\* the entry a secrets map holds under a key, if any
EntryAt(m, k) == IF k \in DOMAIN m THEN <<m[k]>> ELSE <<>>
\* the names of the entries under a key that is not the same before and after
NamesOfChangedEntries ==
  UNION {{e.SecretName : e \in {EntryAt(previousInsecureSecrets, k)[i] :
                                  i \in DOMAIN EntryAt(previousInsecureSecrets, k)}
                               \cup
                               {EntryAt(currentInsecureSecrets, k)[i] :
                                  i \in DOMAIN EntryAt(currentInsecureSecrets, k)}} :
           k \in {x \in SecretKeys :
                    EntryAt(previousInsecureSecrets, x) # EntryAt(currentInsecureSecrets, x)}}

\* C37: in one update the rotation callback is invoked at most once for a
\* secret name, and only for the name of an entry whose name or data is not
\* the same before and after the merge.
C37_RotationOncePerChangedSecret ==
  step = "done" =>
    /\ \A n \in DOMAIN secretCallbacks : secretCallbacks[n] <= 1
    /\ DOMAIN secretCallbacks \subseteq NamesOfChangedEntries

\* C38: with security enabled NewSecretProvider returns a provider and a nil
\* error, or a nil provider and an error, whatever part of the start-up timer
\* has passed and whatever retryable failures occurred; a nil provider is
\* never put in the DI container as the secret provider.
C38_ProviderOrError ==
  (securityEnabled /\ step = "returned") =>
    /\ (provider # "nil") <=> (secretErr = Zero)
    /\ dicSecretProvider # "nil"

====
